---- MODULE Spec2Model ----
(***************************************************************************)
(* kube-parcel runner: the Server of pkg/runner (upload gate, lifecycle    *)
(* state machine, tar extraction, K3s boot task, Helm install/test loop).  *)
(*                                                                         *)
(* Paths and archive entry names are sequences of path segments; a name    *)
(* "charts/demo/Chart.yaml" is <<"charts", "demo", "Chart.yaml">>.  The    *)
(* string tests of the extractor (HasSuffix, HasPrefix, Contains) are      *)
(* evaluated on the segments.                                              *)
(*                                                                         *)
(* The log bus (LogBuffer, WebSocket clients, transition notifications) is *)
(* not part of the state here; only the completion marker a run publishes  *)
(* is kept (completion).                                                   *)
(***************************************************************************)
EXTENDS Naturals, Sequences, FiniteSets, TLC

\* Number of upload requests a Server instance receives.
MaxUploads == 2
\* Longest archive stream enumerated for a single Extract call.
MaxEntries == 2
\* Capacity of the LogBuffer (NewLogBuffer(1000) in NewServer).
LogCapacity == 2
\* Number of log events the producers emit in all.
MaxLogs == 3
\* Number of calls made on a StateMachine by its concurrent callers.
MaxCalls == 4
\* Number of chart directories handed to a Bundler.
MaxBundled == 2
\* Capacity of a channel subscribed to the LogBuffer.
ChanCapacity == 1
\* Number of GET /parcel/status requests served.
MaxStatus == 2
\* Number of ticks the two waits of K3sManager.Start consume before they time out.
MaxTicks == 3

VARIABLES
    current,       \* StateMachine.current
    imagesCount,   \* StateMachine.imagesCount
    chartsCount,   \* StateMachine.chartsCount
    disk,          \* the file system: [files, dirs], sets of absolute paths
    pc,            \* position of each HandleUpload call
    req,           \* each request: [method, body]
    pos,           \* number of body entries Extract has consumed
    warnings,      \* entries Extract skipped with a "Warning: failed to extract"
    onChartCalls,  \* chart directories the OnChart callback was invoked for, per call
    resp,          \* each response: [code, state]
    tpc,           \* position of each startK3s goroutine (spawned by upload r)
    k3sReady,      \* K3sManager.ready
    hm,            \* InstallCharts locals of each task: [charts, i, testFailures, err]
    chartStatus,   \* HelmManager.chartStatus: chart name -> [phase, message]
    completion,    \* the COMPLETE:... marker each task has broadcast, "" if none
    messages,      \* LogBuffer.messages: the events held, oldest first
    added,         \* number of LogBuffer.Add calls so far; event n is the n-th added
    wsClients,     \* Server.wsClients: the registered connections
    connOpen,      \* whether the peer of each connection is still there
    delivered,     \* what was written to each connection: [id, live], in order
    lpc,           \* position of each log producer
    lmsg,          \* the event a producer has added and not yet broadcast
    sent,          \* number of events each producer has emitted
    wpc,           \* position of each HandleWebSocket call
    replay,        \* the rest of the GetAll snapshot a HandleWebSocket call replays
    joinedAt,      \* value of added when the connection was registered
    subscribers,   \* LogBuffer.subscribers: the subscribed channels, in order
    chans,         \* the events buffered in each channel, oldest first
    wsMutex,       \* the holder of Server.wsMutex, NoHolder if free
    stalled,       \* connections whose peer has stopped reading: a write blocks
    writing,       \* the goroutines inside conn.WriteJSON on each connection
    history,       \* the values StateMachine.current has taken, oldest first
    onTransition,  \* whether StateMachine.onTransition is set
    pending,       \* callback goroutines started and not yet run: <<from, to>>
    notified,      \* callback invocations so far: <<from, to>>, in order
    increments,    \* Increment calls returned so far: [images, charts]
    statusResp,    \* the StatusResponse the last HandleStatus call wrote
    statusCalls,   \* number of HandleStatus calls so far
    statusRead,    \* the HandleStatus call in progress: its position and what it has read
    k3s,           \* a K3sManager.Start call and the cluster it boots
    imp,           \* ImportImages: the rest of each task's walk, the warnings it logged,
                   \* and the images in containerd
    client,        \* the StreamLogs call of the client of each upload
    mu,            \* sm.mu, hm.mu and lb.mu: the writer and the readers holding each
    prog,          \* the lock operations each goroutine has still to do
    goq            \* goroutines: the handlers served so far, the callbacks started and not yet running

ServerVars == <<current, imagesCount, chartsCount, disk, pc, req, pos, warnings,
                onChartCalls, resp, tpc, k3sReady, hm, chartStatus, completion>>
SubVars == <<subscribers, chans>>
LockVars == <<wsMutex, stalled, writing>>
LogVars == <<messages, added, wsClients, connOpen, delivered, lpc, lmsg, sent,
             wpc, replay, joinedAt, SubVars, LockVars>>
CallVars == <<history, onTransition, pending, notified, increments>>

StatusVars == <<statusResp, statusCalls, statusRead>>

GoVars == <<mu, prog, goq>>

vars == <<ServerVars, LogVars, CallVars, StatusVars, k3s, imp, client, GoVars>>

Uploads == 1..MaxUploads

(***************************************************************************)
(* shared.State                                                            *)
(***************************************************************************)
StateIdle == "IDLE"
StateTransferring == "TRANSFERRING"
StateStarting == "STARTING"
StateReady == "READY"
States == {StateIdle, StateTransferring, StateStarting, StateReady}

(***************************************************************************)
(* Paths                                                                   *)
(***************************************************************************)
imagesDir == <<"tmp", "parcel", "images">>
chartsDir == <<"tmp", "parcel", "charts">>

Front(p) == SubSeq(p, 1, Len(p) - 1)

\* filepath.Base of a name without trailing separator
Base(p) == IF p = <<>> THEN "/" ELSE p[Len(p)]

\* filepath.Dir of an absolute cleaned path
Dir(p) == IF p = <<>> THEN <<>> ELSE Front(p)

RECURSIVE CleanFrom(_, _)
CleanFrom(stack, rest) ==
    IF rest = <<>> THEN stack
    ELSE IF Head(rest) = ".."
         THEN CleanFrom(IF stack = <<>> THEN <<>> ELSE Front(stack), Tail(rest))
         ELSE CleanFrom(Append(stack, Head(rest)), Tail(rest))

\* filepath.Clean of a rooted path: ".." removes the segment before it, and
\* is dropped at the root
Clean(p) == CleanFrom(<<>>, p)

\* filepath.Join(dir, rel)
Join(dir, rel) == Clean(dir \o rel)

Prefixes(p) == {SubSeq(p, 1, n) : n \in 0..Len(p)}

(***************************************************************************)
(* Archive entries                                                         *)
(***************************************************************************)
\* segments that end in ".tar", ".tar.gz" or ".tgz"
TarSuffixed == {"nginx.tar", "app.tgz"}
\* segments that contain "Chart.yaml"
ChartYamlNamed == {"Chart.yaml", "Chart.yaml.bak"}

Segments == {"charts", "demo", "web", "Chart.yaml", "Chart.yaml.bak",
             "values.yaml", "nginx.tar", "app.tgz", ".."}

\* byte order of the segments that can name a directory entry (os.ReadDir
\* returns entries sorted by filename)
NameOrder == <<"Chart.yaml", "Chart.yaml.bak", "app.tgz", "charts", "demo",
               "nginx.tar", "values.yaml", "web">>

Rank(s) == CHOOSE n \in 1..Len(NameOrder) : NameOrder[n] = s

TypeReg == "reg"
TypeDir == "dir"

File(name) == [name |-> name, typeflag |-> TypeReg]
Directory(name) == [name |-> name, typeflag |-> TypeDir]

isImageTar(name) == Base(name) \in TarSuffixed /\ Len(name) = 1

HasChartsPrefix(name) == Len(name) >= 2 /\ name[1] = "charts"

isChartFile(name) ==
    HasChartsPrefix(name) \/ \E n \in 1..Len(name) : name[n] \in ChartYamlNamed

\* strings.TrimPrefix(name, "charts/")
TrimChartsPrefix(name) == IF HasChartsPrefix(name) THEN Tail(name) ELSE name

(***************************************************************************)
(* File system calls.  io is the outcome the environment gives the call    *)
(* sequence of one entry: "ok", or the call that fails.                    *)
(***************************************************************************)
IOOutcomes == {"ok", "mkdir", "create", "copy"}

MkdirAllFails(fs, p, io) ==
    /\ p \notin fs.dirs
    /\ \/ io = "mkdir"
       \/ \E q \in Prefixes(p) : q \in fs.files

MkdirAll(fs, p) == [fs EXCEPT !.dirs = @ \cup Prefixes(p)]

CreateFails(fs, p, io) ==
    \/ io = "create"
    \/ p \in fs.dirs
    \/ Dir(p) \notin fs.dirs

Create(fs, p) == [fs EXCEPT !.files = @ \cup {p}]

\* what one extract call returns: the disk after it, whether it returned
\* an error, and the chart directories it notified
Outcome(fs, err, charts) == [disk |-> fs, err |-> err, charts |-> charts]

\* extractImage writing under the charts root
MutExtractImage(fs, e, io) ==
    LET targetPath == Join(chartsDir, <<Base(e.name)>>) IN
    IF CreateFails(fs, targetPath, io) THEN Outcome(fs, TRUE, <<>>)
    ELSE IF io = "copy" THEN Outcome(Create(fs, targetPath), TRUE, <<>>)
    ELSE Outcome(Create(fs, targetPath), FALSE, <<>>)

extractImage(fs, e, io) ==
    LET targetPath == Join(imagesDir, <<Base(e.name)>>) IN
    IF CreateFails(fs, targetPath, io) THEN Outcome(fs, TRUE, <<>>)
    ELSE IF io = "copy" THEN Outcome(Create(fs, targetPath), TRUE, <<>>)
    ELSE Outcome(Create(fs, targetPath), FALSE, <<>>)

\* the notification keyed on a name containing Chart.yaml
MutChartYamlNotifies(e) == Base(e.name) \in ChartYamlNamed

\* extractChart line 308
ChartYamlNotifies(e) == Base(e.name) = "Chart.yaml"

\* an extractChart that notifies before the copy has succeeded
MutExtractChart(fs, e, io) ==
    LET relativePath == TrimChartsPrefix(e.name)
        targetPath == Join(chartsDir, relativePath)
        made == MkdirAll(fs, Dir(targetPath))
        notify == IF ChartYamlNotifies(e) THEN <<Dir(targetPath)>> ELSE <<>>
    IN
    IF e.typeflag = TypeDir
    THEN IF MkdirAllFails(fs, targetPath, io) THEN Outcome(fs, TRUE, <<>>)
         ELSE Outcome(MkdirAll(fs, targetPath), FALSE, <<>>)
    ELSE IF MkdirAllFails(fs, Dir(targetPath), io) THEN Outcome(fs, TRUE, <<>>)
    ELSE IF CreateFails(made, targetPath, io) THEN Outcome(made, TRUE, <<>>)
    ELSE IF io = "copy" THEN Outcome(Create(made, targetPath), TRUE, notify)
    ELSE Outcome(Create(made, targetPath), FALSE, notify)

extractChart(fs, e, io) ==
    LET relativePath == TrimChartsPrefix(e.name)
        targetPath == Join(chartsDir, relativePath)
        made == MkdirAll(fs, Dir(targetPath))
    IN
    IF e.typeflag = TypeDir
    THEN IF MkdirAllFails(fs, targetPath, io) THEN Outcome(fs, TRUE, <<>>)
         ELSE Outcome(MkdirAll(fs, targetPath), FALSE, <<>>)
    ELSE IF MkdirAllFails(fs, Dir(targetPath), io) THEN Outcome(fs, TRUE, <<>>)
    ELSE IF CreateFails(made, targetPath, io) THEN Outcome(made, TRUE, <<>>)
    ELSE IF io = "copy" THEN Outcome(Create(made, targetPath), TRUE, <<>>)
    ELSE Outcome(Create(made, targetPath), FALSE,
                 IF ChartYamlNotifies(e) THEN <<Dir(targetPath)>> ELSE <<>>)

(***************************************************************************)
(* StateMachine                                                            *)
(***************************************************************************)
\* Transition(to): no validation of the from-state
\* a Transition that refuses to leave READY
MutTransition(to) == current' = IF current = StateReady THEN current ELSE to

Transition(to) == current' = to

\* a callback started with the state read after the assignment
MutNotification(from, to) == <<to, to>>

\* the pair a callback goroutine is started with, lines 35-39
Notification(from, to) == <<from, to>>

\* an increment whose read-modify-write is not under the lock: a concurrent
\* increment is lost
MutIncrementImages == imagesCount' = IF imagesCount = 0 THEN 1 ELSE imagesCount

IncrementImages == imagesCount' = imagesCount + 1

IncrementCharts(n) == chartsCount' = chartsCount + n

(***************************************************************************)
(* Requests                                                                *)
(***************************************************************************)
NoRequest == [method |-> "", body |-> <<>>]
NoResponse == [code |-> 0, state |-> ""]

Methods == {"POST", "GET"}

StatusAccepted == 202
StatusMethodNotAllowed == 405
StatusConflict == 409
StatusInternalServerError == 500

\* the README's example: one flat image tar and one chart
ImageAndChart == <<File(<<"nginx.tar">>), File(<<"charts", "demo", "Chart.yaml">>)>>

\* the bodies uploaded to the Server
UploadBodies == {<<>>, ImageAndChart}

\* the entries a stream handed to a single Extract call is built from
Entries ==
    {File(<<"nginx.tar">>), File(<<"app.tgz">>), Directory(<<"nginx.tar">>),
     File(<<"charts", "demo", "Chart.yaml">>), File(<<"charts", "demo", "values.yaml">>),
     File(<<"charts", "web", "Chart.yaml">>), Directory(<<"charts", "demo">>),
     File(<<"charts", "demo">>), File(<<"charts", "Chart.yaml">>),
     File(<<"charts", "nginx.tar">>), File(<<"demo", "Chart.yaml">>),
     File(<<"Chart.yaml.bak">>), File(<<"values.yaml">>), File(<<"charts">>),
     File(<<"charts", "demo", "..", "web", "Chart.yaml">>),
     File(<<"charts", "..", "..", "web">>)}

Streams == UNION {[1..n -> Entries] : n \in 0..MaxEntries}

UploadVars == <<pc, req, pos, warnings, onChartCalls, resp>>
TaskVars == <<tpc, k3sReady, hm, chartStatus, completion>>
CounterVars == <<imagesCount, chartsCount>>

(***************************************************************************)
(* Server.HandleUpload                                                     *)
(***************************************************************************)
\* a gate that only rejects once the cluster is Ready
MutIdleGate(s) == s # StateReady

\* the gate of line 87
IdleGate(s) == s = StateIdle

Reply(r, code, state) ==
    /\ resp' = [resp EXCEPT ![r] = [code |-> code, state |-> state]]
    /\ pc' = [pc EXCEPT ![r] = "done"]

\* a broadcastLog call does not return: it writes to every registered
\* connection (lines 258-263), no write deadline is set, and the peer of one
\* of them is there and does not read
BroadcastBlocks == \E c \in wsClients : connOpen[c] /\ c \in stalled

\* lines 82-90: method check, then the gate on Current()
UploadGate(r) ==
    /\ pc[r] = "init"
    /\ \E m \in Methods, b \in UploadBodies :
         IF m # "POST"
         THEN /\ req' = [req EXCEPT ![r] = [method |-> m, body |-> <<>>]]
              /\ Reply(r, StatusMethodNotAllowed, "")
         ELSE IF ~IdleGate(current)
         THEN /\ req' = [req EXCEPT ![r] = [method |-> m, body |-> <<>>]]
              /\ Reply(r, StatusConflict, "")
         ELSE /\ req' = [req EXCEPT ![r] = [method |-> m, body |-> b]]
              /\ pc' = [pc EXCEPT ![r] = "transition"]
              /\ UNCHANGED resp
    /\ UNCHANGED <<current, CounterVars, disk, pos, warnings, onChartCalls, TaskVars>>
    /\ UNCHANGED <<LogVars, CallVars, StatusVars, client, GoVars, k3s, imp>>

\* line 93
UploadTransition(r) ==
    /\ pc[r] = "transition"
    /\ Transition(StateTransferring)
    /\ pc' = [pc EXCEPT ![r] = "roots"]
    /\ UNCHANGED <<CounterVars, disk, req, pos, warnings, onChartCalls, resp, TaskVars>>
    /\ UNCHANGED <<LogVars, CallVars, StatusVars, client, GoVars, k3s, imp>>

\* an Extract that fails although it has created both roots
MutExtractRoots(r) ==
    /\ pc[r] = "roots"
    /\ \E io \in {"ok", "mkdir"}, io2 \in {"ok", "mkdir"} :
         IF MkdirAllFails(disk, imagesDir, io)
         THEN /\ pc' = [pc EXCEPT ![r] = "abort"]
              /\ UNCHANGED disk
         ELSE IF MkdirAllFails(MkdirAll(disk, imagesDir), chartsDir, io2)
         THEN /\ pc' = [pc EXCEPT ![r] = "abort"]
              /\ disk' = MkdirAll(MkdirAll(disk, imagesDir), chartsDir)
         ELSE /\ pc' = [pc EXCEPT ![r] = "entries"]
              /\ disk' = MkdirAll(MkdirAll(disk, imagesDir), chartsDir)
    /\ UNCHANGED <<current, CounterVars, req, pos, warnings, onChartCalls, resp, TaskVars>>
    /\ UNCHANGED <<LogVars, CallVars, StatusVars, client, GoVars, k3s, imp>>

\* Extract lines 216-221: the two roots are created
ExtractRoots(r) ==
    /\ pc[r] = "roots"
    /\ \E io \in {"ok", "mkdir"}, io2 \in {"ok", "mkdir"} :
         IF MkdirAllFails(disk, imagesDir, io)
         THEN /\ pc' = [pc EXCEPT ![r] = "abort"]
              /\ UNCHANGED disk
         ELSE IF MkdirAllFails(MkdirAll(disk, imagesDir), chartsDir, io2)
         THEN /\ pc' = [pc EXCEPT ![r] = "abort"]
              /\ disk' = MkdirAll(disk, imagesDir)
         ELSE /\ pc' = [pc EXCEPT ![r] = "entries"]
              /\ disk' = MkdirAll(MkdirAll(disk, imagesDir), chartsDir)
    /\ UNCHANGED <<current, CounterVars, req, pos, warnings, onChartCalls, resp, TaskVars>>
    /\ UNCHANGED <<LogVars, CallVars, StatusVars, client, GoVars, k3s, imp>>

\* Extract, lines 233-246: one entry of the stream
ExtractEntry(r) ==
    /\ pc[r] = "entries"
    /\ pos[r] < Len(req[r].body)
    /\ LET e == req[r].body[pos[r] + 1] IN
       \E io \in IOOutcomes :
         /\ pos' = [pos EXCEPT ![r] = @ + 1]
         /\ IF isImageTar(e.name)
            THEN LET out == extractImage(disk, e, io) IN
                 /\ disk' = out.disk
                 /\ IF out.err
                    THEN /\ warnings' = [warnings EXCEPT ![r] = @ + 1]
                         /\ UNCHANGED imagesCount
                    ELSE /\ ~BroadcastBlocks
                         /\ IncrementImages
                         /\ UNCHANGED warnings
                 /\ UNCHANGED <<chartsCount, onChartCalls>>
            ELSE IF isChartFile(e.name)
            THEN LET out == extractChart(disk, e, io) IN
                 /\ disk' = out.disk
                 /\ warnings' = [warnings EXCEPT ![r] = IF out.err THEN @ + 1 ELSE @]
                 /\ out.charts # <<>> => ~BroadcastBlocks
                 /\ IncrementCharts(Len(out.charts))
                 /\ onChartCalls' = [onChartCalls EXCEPT ![r] = @ \o out.charts]
                 /\ UNCHANGED imagesCount
            ELSE UNCHANGED <<disk, warnings, CounterVars, onChartCalls>>
    /\ UNCHANGED <<current, pc, req, resp, TaskVars>>
    /\ UNCHANGED <<LogVars, CallVars, StatusVars, client, GoVars, k3s, imp>>

\* Extract, lines 225-231 with io.EOF, then lines 103-106: the boot task is spawned
ExtractEOF(r) ==
    /\ pc[r] = "entries"
    /\ pos[r] = Len(req[r].body)
    /\ ~BroadcastBlocks
    /\ pc' = [pc EXCEPT ![r] = "reply"]
    /\ tpc' = [tpc EXCEPT ![r] = "starting"]
    /\ UNCHANGED <<current, CounterVars, disk, req, pos, warnings, onChartCalls, resp,
                   k3sReady, hm, chartStatus, completion>>
    /\ UNCHANGED <<LogVars, CallVars, StatusVars, client, GoVars, k3s, imp>>

\* Extract, lines 229-231: the tar reader fails on a header
ExtractReadError(r) ==
    /\ pc[r] = "entries"
    /\ pc' = [pc EXCEPT ![r] = "abort"]
    /\ UNCHANGED <<current, CounterVars, disk, req, pos, warnings, onChartCalls, resp, TaskVars>>
    /\ UNCHANGED <<LogVars, CallVars, StatusVars, client, GoVars, k3s, imp>>

\* an abort that rolls the counters back
MutUploadAbort(r) ==
    /\ pc[r] = "abort"
    /\ ~BroadcastBlocks
    /\ Transition(StateIdle)
    /\ Reply(r, StatusInternalServerError, "")
    /\ imagesCount' = 0
    /\ chartsCount' = 0
    /\ UNCHANGED <<disk, req, pos, warnings, onChartCalls, TaskVars>>
    /\ UNCHANGED <<LogVars, CallVars, StatusVars, client, GoVars, k3s, imp>>

\* lines 95-100: extraction failed
UploadAbort(r) ==
    /\ pc[r] = "abort"
    /\ ~BroadcastBlocks
    /\ Transition(StateIdle)
    /\ Reply(r, StatusInternalServerError, "")
    /\ UNCHANGED <<CounterVars, disk, req, pos, warnings, onChartCalls, TaskVars>>
    /\ UNCHANGED <<LogVars, CallVars, StatusVars, client, GoVars, k3s, imp>>

\* lines 108-112: the 202 body carries Current() read after the spawn
UploadReply(r) ==
    /\ pc[r] = "reply"
    /\ Reply(r, StatusAccepted, current)
    /\ UNCHANGED <<current, CounterVars, disk, req, pos, warnings, onChartCalls, TaskVars>>
    /\ UNCHANGED <<LogVars, CallVars, StatusVars, client, GoVars, k3s, imp>>

\* TarExtractor.Extract, called at line 95
Extract(r) ==
    \/ ExtractRoots(r)
    \/ ExtractEntry(r)
    \/ ExtractEOF(r)
    \/ ExtractReadError(r)

HandleUpload(r) ==
    \/ UploadGate(r)
    \/ UploadTransition(r)
    \/ Extract(r)
    \/ UploadAbort(r)
    \/ UploadReply(r)

(***************************************************************************)
(* HelmManager                                                             *)
(***************************************************************************)
PhaseInstalling == "Installing"
PhaseDeployed == "Deployed"
PhaseTesting == "Testing"
PhaseSucceeded == "Succeeded"
PhaseFailed == "Failed"

NoCharts == [charts |-> <<>>, i |-> 0, testFailures |-> <<>>, err |-> FALSE]

RECURSIVE SortByName(_)
SortByName(S) ==
    IF S = {} THEN <<>>
    ELSE LET first == CHOOSE x \in S : \A y \in S : Rank(x) <= Rank(y)
         IN <<first>> \o SortByName(S \ {first})

\* discoverCharts: the immediate subdirectories of chartsDir that hold a
\* Chart.yaml, in os.ReadDir order
discoverCharts(fs) ==
    IF chartsDir \notin fs.dirs THEN <<>>
    ELSE LET names == {n \in Segments \ {".."} :
                         /\ chartsDir \o <<n>> \in fs.dirs
                         /\ chartsDir \o <<n, "Chart.yaml">> \in fs.files \cup fs.dirs}
             sorted == SortByName(names)
         IN [k \in 1..Len(sorted) |-> chartsDir \o <<sorted[k]>>]

updateStatus(chart, phase, message) ==
    chartStatus' = [c \in DOMAIN chartStatus \cup {chart} |->
                      IF c = chart THEN [phase |-> phase, message |-> message]
                      ELSE chartStatus[c]]

\* the chart the loop of InstallCharts is at
Chart(t) == hm[t].charts[hm[t].i]
chartName(t) == Base(Chart(t))

\* a loop that stops at the first failed chart
MutAfterChart(t, failures) ==
    IF hm[t].i < Len(hm[t].charts) /\ failures = <<>>
    THEN /\ hm' = [hm EXCEPT ![t].i = @ + 1, ![t].testFailures = failures]
         /\ tpc' = [tpc EXCEPT ![t] = "installChart"]
    ELSE /\ hm' = [hm EXCEPT ![t].testFailures = failures, ![t].err = failures # <<>>]
         /\ tpc' = [tpc EXCEPT ![t] = "verdict"]

\* a loop whose return value forgets the failures it collected
MutAfterChartNoError(t, failures) ==
    IF hm[t].i < Len(hm[t].charts)
    THEN /\ hm' = [hm EXCEPT ![t].i = @ + 1, ![t].testFailures = failures]
         /\ tpc' = [tpc EXCEPT ![t] = "installChart"]
    ELSE /\ hm' = [hm EXCEPT ![t].testFailures = failures, ![t].err = FALSE]
         /\ tpc' = [tpc EXCEPT ![t] = "verdict"]

\* lines 63-79: after a failure the loop continues with the next chart; after
\* the last chart InstallCharts returns, with an error iff a chart failed
AfterChart(t, failures) ==
    IF hm[t].i < Len(hm[t].charts)
    THEN /\ hm' = [hm EXCEPT ![t].i = @ + 1, ![t].testFailures = failures]
         /\ tpc' = [tpc EXCEPT ![t] = "installChart"]
    ELSE /\ hm' = [hm EXCEPT ![t].testFailures = failures, ![t].err = failures # <<>>]
         /\ tpc' = [tpc EXCEPT ![t] = "verdict"]

\* startK3s line 150 and InstallCharts lines 39-60
InstallChartsBegin(t) ==
    /\ tpc[t] = "install"
    /\ \E helmOk \in BOOLEAN, readOk \in BOOLEAN :
         IF ~helmOk \/ (chartsDir \in disk.dirs /\ ~readOk)
         THEN /\ hm' = [hm EXCEPT ![t] = [NoCharts EXCEPT !.err = TRUE]]
              /\ tpc' = [tpc EXCEPT ![t] = "verdict"]
         ELSE IF discoverCharts(disk) = <<>>
         THEN /\ hm' = [hm EXCEPT ![t] = NoCharts]
              /\ tpc' = [tpc EXCEPT ![t] = "verdict"]
         ELSE /\ hm' = [hm EXCEPT ![t] = [NoCharts EXCEPT !.charts = discoverCharts(disk),
                                                           !.i = 1]]
              /\ tpc' = [tpc EXCEPT ![t] = "installChart"]
    /\ UNCHANGED <<current, CounterVars, disk, UploadVars, k3sReady, chartStatus, completion>>
    /\ UNCHANGED <<LogVars, CallVars, StatusVars, client, GoVars, k3s, imp>>

\* installChart lines 136-141
installChartBegin(t) ==
    /\ tpc[t] = "installChart"
    /\ updateStatus(chartName(t), PhaseInstalling, "Helm install started")
    /\ tpc' = [tpc EXCEPT ![t] = "helmInstall"]
    /\ UNCHANGED <<current, CounterVars, disk, UploadVars, k3sReady, hm, completion>>
    /\ UNCHANGED <<LogVars, CallVars, StatusVars, client, GoVars, k3s, imp>>

\* an InstallCharts that goes on to the next chart without testing this one
MutInstallChartEnd(t) ==
    /\ tpc[t] = "helmInstall"
    /\ \E ok \in BOOLEAN :
         IF ok
         THEN /\ updateStatus(chartName(t), PhaseDeployed, "Helm install succeeded")
              /\ AfterChart(t, hm[t].testFailures)
         ELSE /\ updateStatus(chartName(t), PhaseFailed, "Install failed")
              /\ AfterChart(t, Append(hm[t].testFailures, Chart(t)))
    /\ UNCHANGED <<current, CounterVars, disk, UploadVars, k3sReady, completion>>
    /\ UNCHANGED <<LogVars, CallVars, StatusVars, client, GoVars, k3s, imp>>

\* installChart lines 143-160 and InstallCharts lines 64-68
installChartEnd(t) ==
    /\ tpc[t] = "helmInstall"
    /\ \E ok \in BOOLEAN :
         IF ok
         THEN /\ updateStatus(chartName(t), PhaseDeployed, "Helm install succeeded")
              /\ tpc' = [tpc EXCEPT ![t] = "runTests"]
              /\ UNCHANGED hm
         ELSE /\ updateStatus(chartName(t), PhaseFailed, "Install failed")
              /\ AfterChart(t, Append(hm[t].testFailures, Chart(t)))
    /\ UNCHANGED <<current, CounterVars, disk, UploadVars, k3sReady, completion>>
    /\ UNCHANGED <<LogVars, CallVars, StatusVars, client, GoVars, k3s, imp>>

\* runTests lines 165-170
runTestsBegin(t) ==
    /\ tpc[t] = "runTests"
    /\ updateStatus(chartName(t), PhaseTesting, "Running integration tests")
    /\ tpc' = [tpc EXCEPT ![t] = "helmTest"]
    /\ UNCHANGED <<current, CounterVars, disk, UploadVars, k3sReady, hm, completion>>
    /\ UNCHANGED <<LogVars, CallVars, StatusVars, client, GoVars, k3s, imp>>

\* runTests lines 176-193 and InstallCharts lines 69-72
runTestsEnd(t) ==
    /\ tpc[t] = "helmTest"
    /\ \E ok \in BOOLEAN :
         IF ok
         THEN /\ updateStatus(chartName(t), PhaseSucceeded, "All tests passed")
              /\ AfterChart(t, hm[t].testFailures)
         ELSE /\ updateStatus(chartName(t), PhaseFailed, "Tests failed")
              /\ AfterChart(t, Append(hm[t].testFailures, Chart(t)))
    /\ UNCHANGED <<current, CounterVars, disk, UploadVars, k3sReady, completion>>
    /\ UNCHANGED <<LogVars, CallVars, StatusVars, client, GoVars, k3s, imp>>

InstallCharts(t) ==
    \/ InstallChartsBegin(t)
    \/ installChartBegin(t)
    \/ installChartEnd(t)
    \/ runTestsBegin(t)
    \/ runTestsEnd(t)

(***************************************************************************)
(* Server.startK3s                                                         *)
(***************************************************************************)
CompleteSuccess == "COMPLETE:SUCCESS:All tests passed"
CompleteTestsFailed == "COMPLETE:FAILED:Tests failed"
CompleteBootFailed == "COMPLETE:FAILED:K3s startup failed"

\* line 119
TaskStarting(t) ==
    /\ tpc[t] = "starting"
    /\ Transition(StateStarting)
    /\ tpc' = [tpc EXCEPT ![t] = "boot"]
    /\ UNCHANGED <<CounterVars, disk, UploadVars, k3sReady, hm, chartStatus, completion>>
    /\ UNCHANGED <<LogVars, CallVars, StatusVars, client, GoVars, k3s, imp>>

\* K3sManager.Start lines 86-101: the number of processes a call leaves
\* running; no return path stops the process cmd.Start has spawned
Spawned(out) == IF out = "spawn" THEN 0 ELSE 1

\* line 133: K3sManager.Start returns, by its timeouts at the latest: the
\* spawn failed, a wait timed out, or the cluster is ready; it sets ready
\* only on success
K3sStart(t) ==
    /\ tpc[t] = "boot"
    /\ \E out \in {"spawn", "timeout", "ready"} :
         /\ k3s' = [k3s EXCEPT !.procs = @ + Spawned(out)]
         /\ IF out = "ready"
            THEN /\ k3sReady' = TRUE
                 /\ tpc' = [tpc EXCEPT ![t] = "ready"]
            ELSE /\ tpc' = [tpc EXCEPT ![t] = "bootFailed"]
                 /\ UNCHANGED k3sReady
    /\ UNCHANGED <<current, CounterVars, disk, UploadVars, hm, chartStatus, completion>>
    /\ UNCHANGED <<LogVars, CallVars, StatusVars, client, GoVars, imp>>

\* a boot failure that reverts the state without publishing the marker
MutBootFailed(t) ==
    /\ tpc[t] = "bootFailed"
    /\ ~BroadcastBlocks
    /\ tpc' = [tpc EXCEPT ![t] = "revert"]
    /\ UNCHANGED <<current, CounterVars, disk, UploadVars, k3sReady, hm, chartStatus, completion>>
    /\ UNCHANGED <<LogVars, CallVars, StatusVars, client, GoVars, k3s, imp>>

\* lines 134-136: both broadcastLog calls return, the marker is out
BootFailed(t) ==
    /\ tpc[t] = "bootFailed"
    /\ ~BroadcastBlocks
    /\ completion' = [completion EXCEPT ![t] = CompleteBootFailed]
    /\ tpc' = [tpc EXCEPT ![t] = "revert"]
    /\ UNCHANGED <<current, CounterVars, disk, UploadVars, k3sReady, hm, chartStatus>>
    /\ UNCHANGED <<LogVars, CallVars, StatusVars, client, GoVars, k3s, imp>>

\* a boot failure that ends the task without resetting the state
MutBootRevert(t) ==
    /\ tpc[t] = "revert"
    /\ tpc' = [tpc EXCEPT ![t] = "done"]
    /\ UNCHANGED <<current, CounterVars, disk, UploadVars, k3sReady, hm, chartStatus, completion>>
    /\ UNCHANGED <<LogVars, CallVars, StatusVars, client, GoVars, k3s, imp>>

\* lines 137-138
BootRevert(t) ==
    /\ tpc[t] = "revert"
    /\ Transition(StateIdle)
    /\ tpc' = [tpc EXCEPT ![t] = "done"]
    /\ UNCHANGED <<CounterVars, disk, UploadVars, k3sReady, hm, chartStatus, completion>>
    /\ UNCHANGED <<LogVars, CallVars, StatusVars, client, GoVars, k3s, imp>>

\* lines 141-142
TaskReady(t) ==
    /\ tpc[t] = "ready"
    /\ Transition(StateReady)
    /\ tpc' = [tpc EXCEPT ![t] = "import"]
    /\ UNCHANGED <<CounterVars, disk, UploadVars, k3sReady, hm, chartStatus, completion>>
    /\ UNCHANGED <<LogVars, CallVars, StatusVars, client, GoVars, k3s, imp>>

\* lines 152-168: allPassed is err == nil
Verdict(t) ==
    /\ tpc[t] = "verdict"
    /\ ~BroadcastBlocks
    /\ completion' = [completion EXCEPT ![t] =
                        IF hm[t].err THEN CompleteTestsFailed ELSE CompleteSuccess]
    /\ tpc' = [tpc EXCEPT ![t] = "done"]
    /\ UNCHANGED <<current, CounterVars, disk, UploadVars, k3sReady, hm, chartStatus>>
    /\ UNCHANGED <<LogVars, CallVars, StatusVars, client, GoVars, k3s, imp>>

\* file names with the suffix .gz or .tgz
GzNamed == {"app.tgz"}

\* a walk function that gives up the walk on any failure
MutReturnsNil(io) == io = "ok"

\* ImportImages lines 96-150: the walk function returns nil, and the walk
\* goes on, unless the walk itself hands it an error (lines 97-100)
ReturnsNil(io) == io # "lstat"

\* ImportImages lines 113-115, 122-124, 140-142: "Warning: failed to ..."
Warns(io) == io \in {"open", "gzip", "ctr"}

\* the files filepath.Walk visits under the images root, in lexical order
ImageFiles(fs) ==
    SortByName({n \in Segments \ {".."} : imagesDir \o <<n>> \in fs.files})

\* ImportImages lines 93-96: the walk starts; the root may be unreadable.
\* Whatever ImportImages returns, startK3s lines 145-150 go on to InstallCharts
ImportImagesBegin(t) ==
    /\ tpc[t] = "import"
    /\ ~BroadcastBlocks
    /\ \E ok \in BOOLEAN :
         IF imagesDir \notin disk.dirs \/ ~ok
         THEN /\ imp' = [imp EXCEPT !.walk[t] = <<>>]
              /\ tpc' = [tpc EXCEPT ![t] = "install"]
         ELSE /\ imp' = [imp EXCEPT !.walk[t] = ImageFiles(disk)]
              /\ tpc' = [tpc EXCEPT ![t] = IF ImageFiles(disk) = <<>> THEN "install"
                                           ELSE "importing"]
    /\ UNCHANGED <<current, CounterVars, disk, UploadVars, k3sReady, hm, chartStatus,
                   completion>>
    /\ UNCHANGED <<LogVars, CallVars, StatusVars, client, GoVars, k3s>>

\* ImportImages lines 96-150: the walk function on one file; io is what
\* fails: the walk's lstat, os.Open, gzip.NewReader, the ctr subprocess
\* (its timeout included), or nothing
ImportImage(t) ==
    /\ tpc[t] = "importing"
    /\ LET name == Head(imp.walk[t]) IN
       \E io \in {"ok", "lstat", "open", "gzip", "ctr"} :
         /\ io = "gzip" => name \in GzNamed
         /\ imp' = [imp EXCEPT !.walk[t] = IF ReturnsNil(io) THEN Tail(@) ELSE <<>>,
                               !.warned[t] = IF Warns(io) THEN @ + 1 ELSE @,
                               !.store = IF io = "ok" /\ name \in TarSuffixed
                                         THEN @ \cup {name} ELSE @]
         /\ tpc' = [tpc EXCEPT ![t] = IF ReturnsNil(io) /\ Tail(imp.walk[t]) # <<>>
                                      THEN "importing" ELSE "install"]
    /\ UNCHANGED <<current, CounterVars, disk, UploadVars, k3sReady, hm, chartStatus,
                   completion>>
    /\ UNCHANGED <<LogVars, CallVars, StatusVars, client, GoVars, k3s>>

ImportImages(t) == ImportImagesBegin(t) \/ ImportImage(t)

ImportInit ==
    imp = [walk |-> [t \in Uploads |-> <<>>], warned |-> [t \in Uploads |-> 0],
           store |-> {}]

startK3s(t) ==
    \/ TaskStarting(t)
    \/ K3sStart(t)
    \/ BootFailed(t)
    \/ BootRevert(t)
    \/ TaskReady(t)
    \/ ImportImages(t)
    \/ InstallCharts(t)
    \/ Verdict(t)

(***************************************************************************)
(* The log bus: LogBuffer, broadcastLog, HandleWebSocket                   *)
(***************************************************************************)
\* callers of broadcastLog that run concurrently: the startK3s goroutine and
\* the helm SourceLogWriter fed by the streamTestLogs goroutine
Broadcasters == {"runner", "helm"}
\* the K3s log writer of debug mode, which calls LogBuffer.Write
BufferWriters == {"k3s"}
Producers == Broadcasters \cup BufferWriters
Conns == {"c1"}

\* an eviction that drops the newest event
MutEvict(msgs) == IF Len(msgs) > LogCapacity THEN Front(msgs) ELSE msgs

\* LogBuffer.Add lines 287-289
Evict(msgs) == IF Len(msgs) > LogCapacity THEN Tail(msgs) ELSE msgs

\* the channels a program may subscribe, and the capacity they are made with
Chans == {"s1", "s2"}

\* a delivery loop that gives up at the first full channel
RECURSIVE MutOffer(_, _, _)
MutOffer(subs, chs, msg) ==
    IF subs = <<>> THEN chs
    ELSE IF Len(chs[Head(subs)]) < ChanCapacity
    THEN MutOffer(Tail(subs), [chs EXCEPT ![Head(subs)] = Append(@, msg)], msg)
    ELSE chs

\* LogBuffer.Add lines 291-296: select { case ch <- msg: default: } on each
\* subscribed channel in turn
RECURSIVE Offer(_, _, _)
Offer(subs, chs, msg) ==
    IF subs = <<>> THEN chs
    ELSE IF Len(chs[Head(subs)]) < ChanCapacity
    THEN Offer(Tail(subs), [chs EXCEPT ![Head(subs)] = Append(@, msg)], msg)
    ELSE Offer(Tail(subs), chs, msg)

\* LogBuffer.Add lines 282-297, under lb.mu
Add(msg) ==
    /\ messages' = Evict(Append(messages, msg))
    /\ added' = added + 1
    /\ chans' = Offer(subscribers, chans, msg)

\* LogBuffer.GetAll
GetAll == messages

\* wsMutex is free
NoHolder == "none"

\* conn.WriteJSON on c does not return: the peer is there and does not read
\* (no write deadline is set on the connection)
WriteBlocks(c) == connOpen[c] /\ c \in stalled

\* conn.WriteJSON(msg) on connection c
WriteJSON(d, c, id, live) == [d EXCEPT ![c] = Append(@, [id |-> id, live |-> live])]

\* broadcastLog line 253
BroadcastAdd(p) ==
    /\ p \in Broadcasters
    /\ lpc[p] = "idle"
    /\ added < MaxLogs
    /\ Add(added + 1)
    /\ lmsg' = [lmsg EXCEPT ![p] = added + 1]
    /\ lpc' = [lpc EXCEPT ![p] = "added"]
    /\ UNCHANGED <<wsClients, connOpen, delivered, sent, wpc, replay, joinedAt>>
    /\ UNCHANGED subscribers
    /\ UNCHANGED LockVars
    /\ UNCHANGED <<ServerVars, CallVars, StatusVars, client, GoVars, k3s, imp>>

\* broadcastLog line 255: wsMutex is taken
BroadcastLock(p) ==
    /\ lpc[p] = "added"
    /\ wsMutex = NoHolder
    /\ wsMutex' = p
    /\ lpc' = [lpc EXCEPT ![p] = "locked"]
    /\ UNCHANGED <<messages, added, wsClients, connOpen, delivered, lmsg, sent, wpc,
                   replay, joinedAt, stalled, writing>>
    /\ UNCHANGED SubVars
    /\ UNCHANGED <<ServerVars, CallVars, StatusVars, client, GoVars, k3s, imp>>

\* the goroutine that replays the backlog to a connection
Replayer == "ws"

\* broadcastLog lines 258-259, under wsMutex: the loop is entered and calls
\* conn.WriteJSON on the registered connections (their writes are taken
\* together)
BroadcastWrite(p) ==
    /\ lpc[p] = "locked"
    /\ wsMutex = p
    /\ lpc' = [lpc EXCEPT ![p] = "writing"]
    /\ writing' = [c \in Conns |-> IF c \in wsClients THEN writing[c] \cup {p} ELSE writing[c]]
    /\ UNCHANGED <<messages, added, wsClients, connOpen, delivered, lmsg, sent, wpc,
                   replay, joinedAt, wsMutex, stalled>>
    /\ UNCHANGED SubVars
    /\ UNCHANGED <<ServerVars, CallVars, StatusVars, client, GoVars, k3s, imp>>

\* broadcastLog lines 256-263, under wsMutex: the event is written to every
\* registered connection, each write returning only when the peer takes it
\* or fails; a connection whose write fails is closed and removed; wsMutex
\* is released on return
BroadcastSend(p) ==
    /\ lpc[p] = "writing"
    /\ wsMutex = p
    /\ \A c \in wsClients : ~WriteBlocks(c)
    /\ delivered' = [c \in Conns |->
                       IF c \in wsClients /\ connOpen[c]
                       THEN WriteJSON(delivered, c, lmsg[p], TRUE)[c]
                       ELSE delivered[c]]
    /\ wsClients' = {c \in wsClients : connOpen[c]}
    /\ lpc' = [lpc EXCEPT ![p] = "idle"]
    /\ sent' = [sent EXCEPT ![p] = @ + 1]
    /\ UNCHANGED <<messages, added, connOpen, lmsg, wpc, replay, joinedAt>>
    /\ UNCHANGED SubVars
    /\ wsMutex' = NoHolder
    /\ writing' = [c \in Conns |-> writing[c] \ {p}]
    /\ UNCHANGED stalled
    /\ UNCHANGED <<ServerVars, CallVars, StatusVars, client, GoVars, k3s, imp>>

\* LogBuffer.Write lines 326-340, one line: the event is added to the buffer only
BufferWrite(p) ==
    /\ p \in BufferWriters
    /\ added < MaxLogs
    /\ Add(added + 1)
    /\ sent' = [sent EXCEPT ![p] = @ + 1]
    /\ UNCHANGED <<wsClients, connOpen, delivered, lpc, lmsg, wpc, replay, joinedAt>>
    /\ UNCHANGED subscribers
    /\ UNCHANGED LockVars
    /\ UNCHANGED <<ServerVars, CallVars, StatusVars, client, GoVars, k3s, imp>>

\* HandleWebSocket lines 214-222
WsJoin(c) ==
    /\ wpc[c] = "init"
    /\ wsMutex = NoHolder
    /\ wsClients' = wsClients \cup {c}
    /\ joinedAt' = [joinedAt EXCEPT ![c] = added]
    /\ wpc' = [wpc EXCEPT ![c] = "joined"]
    /\ UNCHANGED <<messages, added, connOpen, delivered, lpc, lmsg, sent, replay>>
    /\ UNCHANGED SubVars
    /\ UNCHANGED LockVars
    /\ UNCHANGED <<ServerVars, CallVars, StatusVars, client, GoVars, k3s, imp>>

\* HandleWebSocket line 231: the snapshot to replay
WsGetAll(c) ==
    /\ wpc[c] = "joined"
    /\ replay' = [replay EXCEPT ![c] = GetAll]
    /\ wpc' = [wpc EXCEPT ![c] = "replay"]
    /\ UNCHANGED <<messages, added, wsClients, connOpen, delivered, lpc, lmsg, sent,
                   joinedAt>>
    /\ UNCHANGED SubVars
    /\ UNCHANGED LockVars
    /\ UNCHANGED <<ServerVars, CallVars, StatusVars, client, GoVars, k3s, imp>>

\* HandleWebSocket line 232: the replay loop calls conn.WriteJSON, outside
\* wsMutex
WsReplayWrite(c) ==
    /\ wpc[c] = "replay"
    /\ replay[c] # <<>>
    /\ Replayer \notin writing[c]
    /\ writing' = [writing EXCEPT ![c] = @ \cup {Replayer}]
    /\ UNCHANGED <<messages, added, wsClients, connOpen, delivered, lpc, lmsg, sent, wpc,
                   replay, joinedAt, wsMutex, stalled>>
    /\ UNCHANGED SubVars
    /\ UNCHANGED <<ServerVars, CallVars, StatusVars, client, GoVars, k3s, imp>>

\* HandleWebSocket lines 231-235: one iteration of the replay loop ends, its
\* write returning
WsReplay(c) ==
    /\ wpc[c] = "replay"
    /\ IF replay[c] = <<>>
       THEN /\ wpc' = [wpc EXCEPT ![c] = "live"]
            /\ UNCHANGED <<delivered, replay, writing>>
       ELSE /\ Replayer \in writing[c]
            /\ writing' = [writing EXCEPT ![c] = @ \ {Replayer}]
            /\ IF connOpen[c]
               THEN /\ ~WriteBlocks(c)
                    /\ delivered' = WriteJSON(delivered, c, Head(replay[c]), FALSE)
                    /\ replay' = [replay EXCEPT ![c] = Tail(@)]
                    /\ UNCHANGED wpc
               ELSE /\ wpc' = [wpc EXCEPT ![c] = "closing"]
                    /\ UNCHANGED <<delivered, replay>>
    /\ UNCHANGED <<messages, added, wsClients, connOpen, lpc, lmsg, sent, joinedAt>>
    /\ UNCHANGED SubVars
    /\ UNCHANGED <<wsMutex, stalled>>
    /\ UNCHANGED <<ServerVars, CallVars, StatusVars, client, GoVars, k3s, imp>>

\* HandleWebSocket lines 237-241: ReadMessage fails once the peer is gone
WsRead(c) ==
    /\ wpc[c] = "live"
    /\ ~connOpen[c]
    /\ wpc' = [wpc EXCEPT ![c] = "closing"]
    /\ UNCHANGED <<messages, added, wsClients, connOpen, delivered, lpc, lmsg, sent,
                   replay, joinedAt>>
    /\ UNCHANGED SubVars
    /\ UNCHANGED LockVars
    /\ UNCHANGED <<ServerVars, CallVars, StatusVars, client, GoVars, k3s, imp>>

\* HandleWebSocket lines 224-229, the deferred cleanup
WsClose(c) ==
    /\ wpc[c] = "closing"
    /\ wsMutex = NoHolder
    /\ wsClients' = wsClients \ {c}
    /\ wpc' = [wpc EXCEPT ![c] = "closed"]
    /\ UNCHANGED <<messages, added, connOpen, delivered, lpc, lmsg, sent, replay,
                   joinedAt>>
    /\ UNCHANGED SubVars
    /\ UNCHANGED LockVars
    /\ UNCHANGED <<ServerVars, CallVars, StatusVars, client, GoVars, k3s, imp>>

\* the peer of a connection goes away
PeerClose(c) ==
    /\ wpc[c] \in {"joined", "replay", "live"}
    /\ connOpen[c]
    /\ connOpen' = [connOpen EXCEPT ![c] = FALSE]
    /\ UNCHANGED <<messages, added, wsClients, delivered, lpc, lmsg, sent, wpc, replay,
                   joinedAt>>
    /\ UNCHANGED SubVars
    /\ UNCHANGED LockVars
    /\ UNCHANGED <<ServerVars, CallVars, StatusVars, client, GoVars, k3s, imp>>

\* the peer of a connection stops reading, or reads again
PeerStall(c) ==
    /\ wpc[c] \in {"joined", "replay", "live"}
    /\ connOpen[c]
    /\ stalled' = IF c \in stalled THEN stalled \ {c} ELSE stalled \cup {c}
    /\ UNCHANGED <<messages, added, wsClients, connOpen, delivered, lpc, lmsg, sent,
                   wpc, replay, joinedAt, wsMutex, writing>>
    /\ UNCHANGED SubVars
    /\ UNCHANGED <<ServerVars, CallVars, StatusVars, client, GoVars, k3s, imp>>

HandleWebSocket(c) ==
    WsJoin(c) \/ WsGetAll(c) \/ WsReplayWrite(c) \/ WsReplay(c) \/ WsRead(c) \/ WsClose(c)

broadcastLog(p) == BroadcastAdd(p) \/ BroadcastLock(p) \/ BroadcastWrite(p) \/ BroadcastSend(p)

SubscribedChans == {subscribers[k] : k \in 1..Len(subscribers)}

\* LogBuffer.Subscribe lines 308-312, with a channel not subscribed yet
Subscribe(ch) ==
    /\ ch \notin SubscribedChans
    /\ subscribers' = Append(subscribers, ch)
    /\ UNCHANGED <<messages, added, wsClients, connOpen, delivered, lpc, lmsg, sent,
                   wpc, replay, joinedAt, chans>>
    /\ UNCHANGED LockVars
    /\ UNCHANGED <<ServerVars, CallVars, StatusVars, client, GoVars, k3s, imp>>

\* LogBuffer.Unsubscribe lines 314-324: the channel is removed and closed
Unsubscribe(ch) ==
    /\ ch \in SubscribedChans
    /\ subscribers' = SelectSeq(subscribers, LAMBDA c : c # ch)
    /\ chans' = [chans EXCEPT ![ch] = <<>>]
    /\ UNCHANGED <<messages, added, wsClients, connOpen, delivered, lpc, lmsg, sent,
                   wpc, replay, joinedAt>>
    /\ UNCHANGED LockVars
    /\ UNCHANGED <<ServerVars, CallVars, StatusVars, client, GoVars, k3s, imp>>

\* the owner of a channel receives its oldest event
Receive(ch) ==
    /\ chans[ch] # <<>>
    /\ chans' = [chans EXCEPT ![ch] = Tail(@)]
    /\ UNCHANGED <<messages, added, wsClients, connOpen, delivered, lpc, lmsg, sent,
                   wpc, replay, joinedAt, subscribers>>
    /\ UNCHANGED LockVars
    /\ UNCHANGED <<ServerVars, CallVars, StatusVars, client, GoVars, k3s, imp>>

\* NewServer lines 55-56: an empty buffer, no connection
LogInit ==
    /\ messages = <<>>
    /\ added = 0
    /\ wsClients = {}
    /\ connOpen = [c \in Conns |-> TRUE]
    /\ delivered = [c \in Conns |-> <<>>]
    /\ lpc = [p \in Producers |-> "idle"]
    /\ lmsg = [p \in Producers |-> 0]
    /\ sent = [p \in Producers |-> 0]
    /\ wpc = [c \in Conns |-> "init"]
    /\ replay = [c \in Conns |-> <<>>]
    /\ joinedAt = [c \in Conns |-> 0]
    /\ writing = [c \in Conns |-> {}]
    /\ subscribers = <<>>
    /\ chans = [ch \in Chans |-> <<>>]
    /\ wsMutex = NoHolder
    /\ stalled = {}

(***************************************************************************)
(* A StateMachine and its concurrent callers; every method runs under      *)
(* sm.mu, so a call is one step.                                           *)
(***************************************************************************)
Notifications == States \X States

CallsMade == (Len(history) - 1) + increments.images + increments.charts

\* OnTransition lines 45-49
OnTransition ==
    /\ ~onTransition
    /\ onTransition' = TRUE
    /\ UNCHANGED <<current, CounterVars, history, pending, notified, increments>>
    /\ UNCHANGED <<disk, UploadVars, TaskVars, LogVars, StatusVars, client, GoVars, k3s, imp>>

\* Transition lines 31-43, called with any target state
TransitionCall(to) ==
    /\ CallsMade < MaxCalls
    /\ Transition(to)
    /\ history' = Append(history, [to |-> to, err |-> "nil", cb |-> onTransition])
    /\ pending' = IF onTransition
                  THEN [pending EXCEPT ![Notification(current, to)] = @ + 1]
                  ELSE pending
    /\ UNCHANGED <<CounterVars, onTransition, notified, increments>>
    /\ UNCHANGED <<disk, UploadVars, TaskVars, LogVars, StatusVars, client, GoVars, k3s, imp>>

\* a goroutine started at line 39 runs the callback
RunCallback(n) ==
    /\ pending[n] > 0
    /\ pending' = [pending EXCEPT ![n] = @ - 1]
    /\ notified' = Append(notified, n)
    /\ UNCHANGED <<current, CounterVars, history, onTransition, increments>>
    /\ UNCHANGED <<disk, UploadVars, TaskVars, LogVars, StatusVars, client, GoVars, k3s, imp>>

\* IncrementImages lines 51-55
IncrementImagesCall ==
    /\ CallsMade < MaxCalls
    /\ IncrementImages
    /\ increments' = [increments EXCEPT !.images = @ + 1]
    /\ UNCHANGED <<current, chartsCount, history, onTransition, pending, notified>>
    /\ UNCHANGED <<disk, UploadVars, TaskVars, LogVars, StatusVars, client, GoVars, k3s, imp>>

\* IncrementCharts lines 57-61
IncrementChartsCall ==
    /\ CallsMade < MaxCalls
    /\ IncrementCharts(1)
    /\ increments' = [increments EXCEPT !.charts = @ + 1]
    /\ UNCHANGED <<current, imagesCount, history, onTransition, pending, notified>>
    /\ UNCHANGED <<disk, UploadVars, TaskVars, LogVars, StatusVars, client, GoVars, k3s, imp>>

\* GetCounts lines 63-67
GetCounts == <<imagesCount, chartsCount>>

\* NewStateMachine lines 19-23
CallsInit ==
    /\ history = <<[to |-> StateIdle, err |-> "nil", cb |-> FALSE]>>
    /\ onTransition = FALSE
    /\ pending = [n \in Notifications |-> 0]
    /\ notified = <<>>
    /\ increments = [images |-> 0, charts |-> 0]

(***************************************************************************)
(* K3sManager.Start: the process is spawned, then the kubeconfig file is   *)
(* awaited, then the endpoints are polled.  k3s holds the position of the  *)
(* call (pc), whether the file exists (kubeconfig), what each endpoint     *)
(* answers at present (serving; 0 is no answer), whether os.Stat has found *)
(* the file (observed), the last answer got from each endpoint (answers),  *)
(* the ticks consumed, and the number of k3s processes spawned that have   *)
(* not exited (procs).                                                     *)
(***************************************************************************)
Kubelet == "http://127.0.0.1:10248/healthz"
ApiServer == "https://127.0.0.1:6443/readyz"

\* waitForReady lines 150-153, in the order polled
urls == <<Kubelet, ApiServer>>

Urls == {Kubelet, ApiServer}

StatusCodes == {0, 200, 401, 503}

\* a poll that takes any answer as ready
MutAccepted(code) == code # 0

\* waitForReady lines 159-166: http.StatusOK or http.StatusUnauthorized
Accepted(code) == code \in {200, 401}

K3sRest == <<current, CounterVars, disk, UploadVars, tpc, hm, chartStatus, completion>>

\* the positions of Start at which it waits for the k3s process
Waiting == {"waitForKubeconfig", "waitForReady", "get"}

\* Start lines 80-88: km.cmd.Start()
CmdStart ==
    /\ k3s.pc = "init"
    /\ \E ok \in BOOLEAN :
         k3s' = [k3s EXCEPT !.pc = IF ok THEN "waitForKubeconfig" ELSE "failed",
                            !.procs = IF ok THEN @ + 1 ELSE @]
    /\ UNCHANGED <<K3sRest, k3sReady>>
    /\ UNCHANGED <<LogVars, CallVars, StatusVars, client, GoVars, imp>>

\* the k3s process writes its kubeconfig
WriteKubeconfig ==
    /\ k3s.pc \in Waiting
    /\ ~k3s.kubeconfig
    /\ k3s' = [k3s EXCEPT !.kubeconfig = TRUE]
    /\ UNCHANGED <<K3sRest, k3sReady>>
    /\ UNCHANGED <<LogVars, CallVars, StatusVars, client, GoVars, imp>>

\* an endpoint of the k3s process changes what it answers
Serve(u, code) ==
    /\ k3s.pc \in Waiting
    /\ k3s.serving[u] # code
    /\ k3s' = [k3s EXCEPT !.serving[u] = code]
    /\ UNCHANGED <<K3sRest, k3sReady>>
    /\ UNCHANGED <<LogVars, CallVars, StatusVars, client, GoVars, imp>>

\* waitForKubeconfig lines 108-125: one tick, or the timeout
waitForKubeconfig ==
    /\ k3s.pc = "waitForKubeconfig"
    /\ \/ /\ k3s.ticks < MaxTicks
          /\ k3s' = IF k3s.kubeconfig
                    THEN [k3s EXCEPT !.observed = TRUE, !.pc = "waitForReady",
                                     !.ticks = @ + 1]
                    ELSE [k3s EXCEPT !.ticks = @ + 1]
       \/ k3s' = [k3s EXCEPT !.pc = "failed"]
    /\ UNCHANGED <<K3sRest, k3sReady>>
    /\ UNCHANGED <<LogVars, CallVars, StatusVars, client, GoVars, imp>>

\* waitForReady lines 143-148: a tick starts a round over urls, or the timeout
waitForReady ==
    /\ k3s.pc = "waitForReady"
    /\ \/ /\ k3s.ticks < MaxTicks
          /\ k3s' = [k3s EXCEPT !.pc = "get", !.url = 1, !.ticks = @ + 1]
       \/ k3s' = [k3s EXCEPT !.pc = "failed"]
    /\ UNCHANGED <<K3sRest, k3sReady>>
    /\ UNCHANGED <<LogVars, CallVars, StatusVars, client, GoVars, imp>>

\* waitForReady lines 155-168: client.Get on the next url; an accepted
\* answer returns, and Start line 103 sets ready
Get ==
    /\ k3s.pc = "get"
    /\ LET u == urls[k3s.url]
           code == k3s.serving[u]
       IN IF Accepted(code)
          THEN /\ k3s' = [k3s EXCEPT !.answers[u] = code, !.pc = "ready"]
               /\ k3sReady' = TRUE
          ELSE /\ k3s' = [k3s EXCEPT !.answers[u] = code,
                                     !.pc = IF k3s.url = Len(urls) THEN "waitForReady"
                                            ELSE "get",
                                     !.url = IF k3s.url = Len(urls) THEN 1 ELSE @ + 1]
               /\ UNCHANGED k3sReady
    /\ UNCHANGED K3sRest
    /\ UNCHANGED <<LogVars, CallVars, StatusVars, client, GoVars, imp>>

\* a k3s process exits by itself
ProcessExits ==
    /\ k3s.procs > 0
    /\ k3s.pc \in Waiting
    /\ k3s' = [k3s EXCEPT !.procs = @ - 1]
    /\ UNCHANGED <<K3sRest, k3sReady>>
    /\ UNCHANGED <<LogVars, CallVars, StatusVars, client, GoVars, imp>>

\* K3sManager.Start, lines 36-106, step by step
Start ==
    \/ CmdStart
    \/ waitForKubeconfig
    \/ waitForReady
    \/ Get

\* what the k3s process does meanwhile
K3sProcess ==
    \/ WriteKubeconfig
    \/ \E u \in Urls, code \in StatusCodes : Serve(u, code)
    \/ ProcessExits

\* NewK3sManager
K3sInit ==
    k3s = [pc |-> "init", kubeconfig |-> FALSE, serving |-> [u \in Urls |-> 0],
           observed |-> FALSE, answers |-> [u \in Urls |-> 0], url |-> 1, ticks |-> 0,
           procs |-> 0]

(***************************************************************************)
(* GET /parcel/status                                                      *)
(***************************************************************************)
NoStatus == [state |-> ""]

\* K3sManager.IsReady
IsReady == k3sReady

\* a GetChartsStatus that hands out the map it guards
MutGetChartsStatus == [shared |-> TRUE, entries |-> chartStatus]

\* GetChartsStatus lines 318-328: a fresh map with the entries of chartStatus
GetChartsStatus == [shared |-> FALSE, entries |-> chartStatus]

\* the entries of a map a caller of GetChartsStatus holds
HeldEntries(m) == IF m.shared THEN chartStatus ELSE m.entries

\* a HandleStatus that fills K3sReady before State
MutStatusOrder == <<"GetCounts", "Images", "ClusterStatus", "K3sReady", "State", "Charts">>

\* the order in which HandleStatus reads the Server: GetCounts line 173,
\* IsReady for the image list line 176, IsReady for ClusterStatus line 190,
\* Current line 196, IsReady line 198, GetChartsStatus line 203
StatusOrder == <<"GetCounts", "Images", "ClusterStatus", "State", "K3sReady", "Charts">>

NoRead == [at |-> 0, state |-> "", K3sReady |-> FALSE, ClusterStatus |-> "",
           ImagesCount |-> 0, ChartsCount |-> 0, Images |-> "nil"]

\* the read HandleStatus is at
ReadNext(f) == statusRead.at > 0 /\ StatusOrder[statusRead.at] = f

\* line 172: a request arrives
StatusArrives ==
    /\ statusRead.at = 0
    /\ statusCalls < MaxStatus
    /\ statusRead' = [NoRead EXCEPT !.at = 1]
    /\ UNCHANGED <<statusResp, statusCalls>>
    /\ UNCHANGED <<ServerVars, LogVars, CallVars, k3s, imp, client, GoVars>>

\* line 173
StatusGetCounts ==
    /\ ReadNext("GetCounts")
    /\ statusRead' = [statusRead EXCEPT !.at = @ + 1,
                                        !.ImagesCount = GetCounts[1],
                                        !.ChartsCount = GetCounts[2]]
    /\ UNCHANGED <<statusResp, statusCalls>>
    /\ UNCHANGED <<ServerVars, LogVars, CallVars, k3s, imp, client, GoVars>>

\* lines 175-188; listed is the outcome of the ctr subprocess
StatusImages ==
    /\ ReadNext("Images")
    /\ \E listed \in BOOLEAN :
         statusRead' = [statusRead EXCEPT !.at = @ + 1,
                                         !.Images = IF IsReady /\ listed THEN "listed" ELSE "nil"]
    /\ UNCHANGED <<statusResp, statusCalls>>
    /\ UNCHANGED <<ServerVars, LogVars, CallVars, k3s, imp, client, GoVars>>

\* lines 190-193
StatusCluster ==
    /\ ReadNext("ClusterStatus")
    /\ statusRead' = [statusRead EXCEPT !.at = @ + 1,
                                        !.ClusterStatus = IF IsReady THEN "Ready" ELSE "Initializing"]
    /\ UNCHANGED <<statusResp, statusCalls>>
    /\ UNCHANGED <<ServerVars, LogVars, CallVars, k3s, imp, client, GoVars>>

\* line 196
StatusState ==
    /\ ReadNext("State")
    /\ statusRead' = [statusRead EXCEPT !.at = @ + 1, !.state = current]
    /\ UNCHANGED <<statusResp, statusCalls>>
    /\ UNCHANGED <<ServerVars, LogVars, CallVars, k3s, imp, client, GoVars>>

\* line 198
StatusK3sReady ==
    /\ ReadNext("K3sReady")
    /\ statusRead' = [statusRead EXCEPT !.at = @ + 1, !.K3sReady = IsReady]
    /\ UNCHANGED <<statusResp, statusCalls>>
    /\ UNCHANGED <<ServerVars, LogVars, CallVars, k3s, imp, client, GoVars>>

\* lines 203-209: the chart map, the cluster resources, and the response is
\* written; fetched is the outcome of the kubectl subprocesses
StatusEncode ==
    /\ ReadNext("Charts")
    /\ \E fetched \in BOOLEAN :
         statusResp' = [state |-> statusRead.state,
                        K3sReady |-> statusRead.K3sReady,
                        ClusterStatus |-> statusRead.ClusterStatus,
                        ImagesCount |-> statusRead.ImagesCount,
                        ChartsCount |-> statusRead.ChartsCount,
                        Images |-> statusRead.Images,
                        Charts |-> GetChartsStatus,
                        ClusterResources |-> IF fetched THEN "fetched" ELSE "nil"]
    /\ statusCalls' = statusCalls + 1
    /\ statusRead' = NoRead
    /\ UNCHANGED <<ServerVars, LogVars, CallVars, k3s, imp, client, GoVars>>

\* HandleStatus lines 172-210
HandleStatus ==
    \/ StatusArrives
    \/ StatusGetCounts
    \/ StatusImages
    \/ StatusCluster
    \/ StatusState
    \/ StatusK3sReady
    \/ StatusEncode

StatusInit ==
    /\ statusResp = NoStatus
    /\ statusCalls = 0
    /\ statusRead = NoRead

(***************************************************************************)
(* The Server: NewServer, then any interleaving of the upload handlers and *)
(* the boot tasks they spawned.                                            *)
(***************************************************************************)
(* The client of an upload: uploadToServer, then StreamLogs                *)
(***************************************************************************)
\* the runs whose completion marker has been added to the log buffer, in the
\* order of the runs
Markers == SelectSeq([r \in Uploads |-> r], LAMBDA r : completion[r] # "")

\* what is left of a sequence once the k oldest are evicted
Newest(q, k) == SubSeq(q, k + 1, Len(q))

\* StreamLogs lines 22-30 and HandleWebSocket lines 214-231: after its upload
\* was answered 202 the client dials; the server registers the connection
\* and takes the backlog to replay, which holds the markers the buffer has
\* not evicted
StreamDial(r) ==
    /\ client[r].pc = "init"
    /\ resp[r].code = StatusAccepted
    /\ \E k \in 0..Len(Markers) :
         client' = [client EXCEPT ![r] = [pc |-> "read", backlog |-> Newest(Markers, k),
                                          known |-> Len(Markers), verdictOf |-> 0]]
    /\ UNCHANGED <<ServerVars, LogVars, CallVars, StatusVars, k3s, imp, GoVars>>

\* StreamLogs lines 45-73: the replayed backlog is read first, then the live
\* events; the first completion marker read is the verdict returned
StreamRead(r) ==
    /\ client[r].pc = "read"
    /\ IF client[r].backlog # <<>>
       THEN client' = [client EXCEPT ![r].pc = "done",
                                     ![r].verdictOf = Head(client[r].backlog)]
       ELSE /\ Len(Markers) > client[r].known
            /\ client' = [client EXCEPT ![r].pc = "done",
                                        ![r].verdictOf = Markers[client[r].known + 1]]
    /\ UNCHANGED <<ServerVars, LogVars, CallVars, StatusVars, k3s, imp, GoVars>>

StreamLogs(r) == StreamDial(r) \/ StreamRead(r)

ClientInit ==
    client = [r \in Uploads |-> [pc |-> "init", backlog |-> <<>>, known |-> 0, verdictOf |-> 0]]

(***************************************************************************)
(* The locks of the Server.  Each goroutine is the sequence of lock        *)
(* operations, goroutine starts and connection writes its code performs.   *)
(***************************************************************************)
RWMutexes == {"sm.mu", "hm.mu", "lb.mu"}
Locks == RWMutexes \cup {"wsMutex"}

\* the goroutines of the HTTP handlers, the boot task, and one that runs the
\* OnTransition callbacks Transition starts
Handlers == {"HandleUpload", "HandleStatus", "HandleWebSocket"}
Callbacks == {"cb1"}
Goroutines == Handlers \cup {"startK3s"} \cup Callbacks

Op(op, x) == [op |-> op, x |-> x]

\* the operations of a method, in the order of its code
RECURSIVE Body(_)
Body(m) ==
    CASE m = "Current" -> <<Op("RLock", "sm.mu"), Op("RUnlock", "sm.mu")>>
      [] m = "GetCounts" -> <<Op("RLock", "sm.mu"), Op("RUnlock", "sm.mu")>>
      [] m = "Transition" ->
             <<Op("Lock", "sm.mu"), Op("go", "OnTransition"), Op("Unlock", "sm.mu")>>
      [] m = "IncrementImages" -> <<Op("Lock", "sm.mu"), Op("Unlock", "sm.mu")>>
      [] m = "Add" -> <<Op("Lock", "lb.mu"), Op("Unlock", "lb.mu")>>
      [] m = "GetAll" -> <<Op("RLock", "lb.mu"), Op("RUnlock", "lb.mu")>>
      [] m = "updateStatus" -> <<Op("Lock", "hm.mu"), Op("Unlock", "hm.mu")>>
      [] m = "GetChartsStatus" -> <<Op("RLock", "hm.mu"), Op("RUnlock", "hm.mu")>>
      [] m = "broadcastLog" ->
             Body("Add") \o <<Op("Lock", "wsMutex"), Op("WriteJSON", "conn"),
                              Op("Unlock", "wsMutex")>>
      [] m = "OnTransition" -> Body("broadcastLog")
      [] m = "OnImage" -> Body("IncrementImages") \o Body("broadcastLog")
      [] m = "HandleStatus" ->
             Body("GetCounts") \o Body("Current") \o Body("GetChartsStatus")
      [] m = "HandleWebSocket" ->
             <<Op("Lock", "wsMutex"), Op("Unlock", "wsMutex")>> \o Body("GetAll")
                 \o <<Op("WriteJSON", "conn"), Op("Lock", "wsMutex"), Op("Unlock", "wsMutex")>>
      [] m = "HandleUpload" ->
             Body("Current") \o Body("Transition") \o Body("OnImage")
                 \o Body("broadcastLog") \o <<Op("go", "startK3s")>> \o Body("Current")
      [] m = "startK3s" ->
             Body("Transition") \o Body("Transition") \o Body("updateStatus")
                 \o Body("broadcastLog")

\* the variables no lock operation touches
LockFrame ==
    <<ServerVars, messages, added, wsClients, connOpen, delivered, lpc, lmsg, sent, wpc,
      replay, joinedAt, SubVars, writing, CallVars, StatusVars, client, k3s, imp>>

\* the locks goroutine g holds
Held(g) ==
    {l \in RWMutexes : mu[l].w = g \/ g \in mu[l].r}
        \cup (IF wsMutex = g THEN {"wsMutex"} ELSE {})

\* the HTTP server starts the goroutine of a request
Request(h) ==
    /\ h \in Handlers \ goq.served
    /\ prog' = [prog EXCEPT ![h] = Body(h)]
    /\ goq' = [goq EXCEPT !.served = @ \cup {h}]
    /\ UNCHANGED <<mu, wsMutex, stalled>>
    /\ UNCHANGED LockFrame

\* a callback goroutine started by Transition begins to run
RunGo(g) ==
    /\ g \in Callbacks
    /\ prog[g] = <<>>
    /\ goq.callbacks > 0
    /\ prog' = [prog EXCEPT ![g] = Body("OnTransition")]
    /\ goq' = [goq EXCEPT !.callbacks = @ - 1]
    /\ UNCHANGED <<mu, wsMutex, stalled>>
    /\ UNCHANGED LockFrame

\* goroutine g performs its next operation; Lock and RLock wait for the lock
\* (sync.RWMutex, sync.Mutex), WriteJSON for the peer to read
Step(g) ==
    /\ prog[g] # <<>>
    /\ LET o == Head(prog[g]) IN
       /\ CASE o.op = "Lock" /\ o.x = "wsMutex" ->
                  /\ wsMutex = NoHolder
                  /\ wsMutex' = g
                  /\ UNCHANGED <<mu, goq, stalled>>
            [] o.op = "Unlock" /\ o.x = "wsMutex" ->
                  /\ wsMutex' = NoHolder
                  /\ UNCHANGED <<mu, goq, stalled>>
            [] o.op = "Lock" /\ o.x # "wsMutex" ->
                  /\ mu[o.x].w = NoHolder /\ mu[o.x].r = {}
                  /\ mu' = [mu EXCEPT ![o.x].w = g]
                  /\ UNCHANGED <<wsMutex, goq, stalled>>
            [] o.op = "Unlock" /\ o.x # "wsMutex" ->
                  /\ mu' = [mu EXCEPT ![o.x].w = NoHolder]
                  /\ UNCHANGED <<wsMutex, goq, stalled>>
            [] o.op = "RLock" ->
                  /\ mu[o.x].w = NoHolder
                  /\ mu' = [mu EXCEPT ![o.x].r = @ \cup {g}]
                  /\ UNCHANGED <<wsMutex, goq, stalled>>
            [] o.op = "RUnlock" ->
                  /\ mu' = [mu EXCEPT ![o.x].r = @ \ {g}]
                  /\ UNCHANGED <<wsMutex, goq, stalled>>
            [] o.op = "WriteJSON" ->
                  /\ stalled = {}
                  /\ UNCHANGED <<mu, wsMutex, goq, stalled>>
            [] o.op = "go" /\ o.x = "OnTransition" ->
                  /\ goq' = [goq EXCEPT !.callbacks = @ + 1]
                  /\ UNCHANGED <<mu, wsMutex, stalled>>
            [] o.op = "go" /\ o.x # "OnTransition" ->
                  /\ UNCHANGED <<mu, wsMutex, goq, stalled>>
       /\ prog' = [h \in Goroutines |->
                     IF h = g THEN Tail(prog[g])
                     ELSE IF o.op = "go" /\ o.x = h THEN Body(h)
                     ELSE prog[h]]
    /\ UNCHANGED LockFrame

\* the peer of the connection stops reading, or reads again
ConnStall ==
    /\ stalled' = IF stalled = {} THEN Conns ELSE {}
    /\ UNCHANGED <<mu, prog, goq, wsMutex>>
    /\ UNCHANGED LockFrame

GoInit ==
    /\ mu = [l \in RWMutexes |-> [w |-> NoHolder, r |-> {}]]
    /\ prog = [g \in Goroutines |-> <<>>]
    /\ goq = [served |-> {}, callbacks |-> 0]

(***************************************************************************)
EmptyDisk == [files |-> {}, dirs |-> {<<>>, <<"tmp">>}]

Init ==
    /\ current = StateIdle
    /\ imagesCount = 0
    /\ chartsCount = 0
    /\ disk = EmptyDisk
    /\ pc = [r \in Uploads |-> "init"]
    /\ req = [r \in Uploads |-> NoRequest]
    /\ pos = [r \in Uploads |-> 0]
    /\ warnings = [r \in Uploads |-> 0]
    /\ onChartCalls = [r \in Uploads |-> <<>>]
    /\ resp = [r \in Uploads |-> NoResponse]
    /\ tpc = [r \in Uploads |-> "none"]
    /\ k3sReady = FALSE
    /\ hm = [r \in Uploads |-> NoCharts]
    /\ chartStatus = <<>>
    /\ completion = [r \in Uploads |-> ""]
    /\ LogInit
    /\ CallsInit
    /\ StatusInit
    /\ K3sInit
    /\ ImportInit
    /\ ClientInit
    /\ GoInit

Next == \E r \in Uploads : HandleUpload(r) \/ startK3s(r)

Spec == Init /\ [][Next]_vars

(***************************************************************************)
(* A single Extract call on a fresh Server: upload 1 has passed the gate   *)
(* and set TRANSFERRING, its body is any stream over Entries.              *)
(***************************************************************************)
InitExtract ==
    /\ current = StateTransferring
    /\ imagesCount = 0
    /\ chartsCount = 0
    /\ disk = EmptyDisk
    /\ pc = [r \in Uploads |-> IF r = 1 THEN "roots" ELSE "init"]
    /\ \E b \in Streams :
         req = [r \in Uploads |-> IF r = 1 THEN [method |-> "POST", body |-> b]
                                   ELSE NoRequest]
    /\ pos = [r \in Uploads |-> 0]
    /\ warnings = [r \in Uploads |-> 0]
    /\ onChartCalls = [r \in Uploads |-> <<>>]
    /\ resp = [r \in Uploads |-> NoResponse]
    /\ tpc = [r \in Uploads |-> "none"]
    /\ k3sReady = FALSE
    /\ hm = [r \in Uploads |-> NoCharts]
    /\ chartStatus = <<>>
    /\ completion = [r \in Uploads |-> ""]
    /\ LogInit
    /\ CallsInit
    /\ StatusInit
    /\ K3sInit
    /\ ImportInit
    /\ ClientInit
    /\ GoInit

NextExtract == \E r \in Uploads : Extract(r)

SpecExtract == InitExtract /\ [][NextExtract]_vars

(***************************************************************************)
(* client.Bundler: the stream Bundle writes for some images and chart      *)
(* directories, handed to a single Extract call.                           *)
(***************************************************************************)
\* segments with the suffix ".tar"
DotTarNamed == {"nginx.tar"}

\* image specs: a plain path (addImageFromPath accepts a file only with the
\* suffix .tar) or a tar:// path (addImageTar, any file).  An OCI directory
\* or a remote image ends in addImageTarWithName with a name built as
\* <name>.tar, the entry a plain .tar path yields.
ImageSpecs ==
    {[kind |-> "path", path |-> <<"nginx.tar">>],
     [kind |-> "path", path |-> <<"demo", "nginx.tar">>],
     [kind |-> "path", path |-> <<"app.tgz">>],
     [kind |-> "tar", path |-> <<"app.tgz">>],
     [kind |-> "tar", path |-> <<"values.yaml">>]}

\* what filepath.Walk visits below a chart directory, in lexical order
Walked(rel, isDir) == [rel |-> rel, isDir |-> isDir]

ChartDirs ==
    {[path |-> <<"demo">>,
      walk |-> <<Walked(<<"Chart.yaml">>, FALSE), Walked(<<"values.yaml">>, FALSE)>>],
     [path |-> <<"web", "demo">>,
      walk |-> <<Walked(<<"Chart.yaml">>, FALSE)>>],
     [path |-> <<"web">>,
      walk |-> <<Walked(<<"Chart.yaml">>, FALSE), Walked(<<"charts">>, TRUE),
                 Walked(<<"charts", "demo">>, TRUE),
                 Walked(<<"charts", "demo", "Chart.yaml">>, FALSE)>>]}

\* addImageFromSpec lines 66-100 and addImageFromPath lines 103-116: whether
\* the spec is added at all
ImageAdded(spec) == spec.kind = "tar" \/ Base(spec.path) \in DotTarNamed

\* addImageTar lines 119-152: one flat entry named by the base name
addImageTar(spec) == <<File(<<Base(spec.path)>>)>>

\* addChartTo lines 338-395: one entry per walked path, named
\* charts/<base of chartDir>/<relPath>
addChartTo(chart) ==
    [k \in 1..Len(chart.walk) |->
       [name |-> Join(<<"charts", Base(chart.path)>>, chart.walk[k].rel),
        typeflag |-> IF chart.walk[k].isDir THEN TypeDir ELSE TypeReg]]

RECURSIVE BundleImages(_)
BundleImages(images) ==
    IF images = <<>> THEN <<>>
    ELSE (IF ImageAdded(Head(images)) THEN addImageTar(Head(images)) ELSE <<>>)
         \o BundleImages(Tail(images))

RECURSIVE BundleCharts(_)
BundleCharts(charts) ==
    IF charts = <<>> THEN <<>>
    ELSE addChartTo(Head(charts)) \o BundleCharts(Tail(charts))

\* Bundle lines 41-63: the images first, then the charts
Bundle(images, charts) == BundleImages(images) \o BundleCharts(charts)

BundleInputs ==
    {[images |-> i, charts |-> c] :
       i \in UNION {[1..n -> ImageSpecs] : n \in 0..1},
       c \in UNION {[1..n -> ChartDirs] : n \in 0..MaxBundled}}

InitBundle ==
    /\ current = StateTransferring
    /\ imagesCount = 0
    /\ chartsCount = 0
    /\ disk = EmptyDisk
    /\ pc = [r \in Uploads |-> IF r = 1 THEN "roots" ELSE "init"]
    /\ \E in \in BundleInputs :
         req = [r \in Uploads |->
                  IF r = 1 THEN [method |-> "POST",
                                 body |-> Bundle(in.images, in.charts),
                                 bundled |-> in]
                  ELSE NoRequest]
    /\ pos = [r \in Uploads |-> 0]
    /\ warnings = [r \in Uploads |-> 0]
    /\ onChartCalls = [r \in Uploads |-> <<>>]
    /\ resp = [r \in Uploads |-> NoResponse]
    /\ tpc = [r \in Uploads |-> "none"]
    /\ k3sReady = FALSE
    /\ hm = [r \in Uploads |-> NoCharts]
    /\ chartStatus = <<>>
    /\ completion = [r \in Uploads |-> ""]
    /\ LogInit
    /\ CallsInit
    /\ StatusInit
    /\ K3sInit
    /\ ImportInit
    /\ ClientInit
    /\ GoInit

NextBundle == \E r \in Uploads : Extract(r)

SpecBundle == InitBundle /\ [][NextBundle]_vars

(***************************************************************************)
(* A single InstallCharts call: upload 1 delivered the Chart.yaml of some  *)
(* charts, the cluster booted, and task 1 is about to call InstallCharts.  *)
(***************************************************************************)
ChartNames == {"demo", "web", "app.tgz"}

ChartsBody(S) ==
    LET sorted == SortByName(S)
    IN [k \in 1..Len(sorted) |-> File(<<"charts", sorted[k], "Chart.yaml">>)]

RECURSIVE Extracted(_, _)
Extracted(fs, body) ==
    IF body = <<>> THEN fs
    ELSE Extracted(extractChart(fs, Head(body), "ok").disk, Tail(body))

InitInstall ==
    \E S \in SUBSET ChartNames :
        /\ current = StateReady
        /\ imagesCount = 0
        /\ chartsCount = Cardinality(S)
        /\ disk = Extracted(MkdirAll(MkdirAll(EmptyDisk, imagesDir), chartsDir), ChartsBody(S))
        /\ pc = [r \in Uploads |-> IF r = 1 THEN "done" ELSE "init"]
        /\ req = [r \in Uploads |-> IF r = 1 THEN [method |-> "POST", body |-> ChartsBody(S)]
                                     ELSE NoRequest]
        /\ pos = [r \in Uploads |-> IF r = 1 THEN Cardinality(S) ELSE 0]
        /\ warnings = [r \in Uploads |-> 0]
        /\ onChartCalls = [r \in Uploads |->
                             IF r = 1 THEN [k \in 1..Cardinality(S) |->
                                              chartsDir \o <<SortByName(S)[k]>>]
                             ELSE <<>>]
        /\ resp = [r \in Uploads |-> IF r = 1 THEN [code |-> StatusAccepted,
                                                    state |-> StateTransferring]
                                      ELSE NoResponse]
        /\ tpc = [r \in Uploads |-> IF r = 1 THEN "install" ELSE "none"]
        /\ k3sReady = TRUE
        /\ hm = [r \in Uploads |-> NoCharts]
        /\ chartStatus = <<>>
        /\ completion = [r \in Uploads |-> ""]
        /\ LogInit
        /\ CallsInit
        /\ StatusInit
        /\ K3sInit
        /\ ImportInit
        /\ ClientInit
        /\ GoInit

NextInstall == \E t \in Uploads : InstallCharts(t)

SpecInstall == InitInstall /\ [][NextInstall]_vars

(***************************************************************************)
(* The boot task of an upload from READY on: images were extracted under   *)
(* the images root, charts under the charts root; ImportImages, then       *)
(* InstallCharts.                                                          *)
(***************************************************************************)
ImageNames == {"nginx.tar", "app.tgz"}

InitImport ==
    \E I \in SUBSET ImageNames, S \in SUBSET {"demo"} :
        /\ current = StateReady
        /\ imagesCount = Cardinality(I)
        /\ chartsCount = Cardinality(S)
        /\ disk = LET fs == Extracted(MkdirAll(MkdirAll(EmptyDisk, imagesDir), chartsDir),
                                      ChartsBody(S))
                  IN [fs EXCEPT !.files = @ \cup {imagesDir \o <<n>> : n \in I}]
        /\ pc = [r \in Uploads |-> IF r = 1 THEN "done" ELSE "init"]
        /\ req = [r \in Uploads |->
                    IF r = 1
                    THEN [method |-> "POST",
                          body |-> [k \in 1..Cardinality(I) |-> File(<<SortByName(I)[k]>>)]
                                   \o ChartsBody(S)]
                    ELSE NoRequest]
        /\ pos = [r \in Uploads |-> IF r = 1 THEN Cardinality(I) + Cardinality(S) ELSE 0]
        /\ warnings = [r \in Uploads |-> 0]
        /\ onChartCalls = [r \in Uploads |->
                             IF r = 1 THEN [k \in 1..Cardinality(S) |->
                                              chartsDir \o <<SortByName(S)[k]>>]
                             ELSE <<>>]
        /\ resp = [r \in Uploads |-> IF r = 1 THEN [code |-> StatusAccepted,
                                                    state |-> StateTransferring]
                                      ELSE NoResponse]
        /\ tpc = [r \in Uploads |-> IF r = 1 THEN "import" ELSE "none"]
        /\ k3sReady = TRUE
        /\ hm = [r \in Uploads |-> NoCharts]
        /\ chartStatus = <<>>
        /\ completion = [r \in Uploads |-> ""]
        /\ LogInit
        /\ CallsInit
        /\ StatusInit
        /\ K3sInit
        /\ ImportInit
        /\ ClientInit
        /\ GoInit

NextImport == \E t \in Uploads : ImportImages(t) \/ InstallCharts(t)

SpecImport == InitImport /\ [][NextImport]_vars

(***************************************************************************)
(* The log bus of a fresh Server: producers and WebSocket connections in   *)
(* any interleaving.                                                       *)
(***************************************************************************)
InitLog == Init

NextLog ==
    \/ \E p \in Producers : broadcastLog(p) \/ BufferWrite(p)
    \/ \E c \in Conns : HandleWebSocket(c) \/ PeerClose(c) \/ PeerStall(c)

SpecLog == InitLog /\ [][NextLog]_vars

(***************************************************************************)
(* One upload and its boot task, with status requests served at any time.  *)
(***************************************************************************)
InitStatus == Init

NextStatus ==
    \/ HandleUpload(1) \/ startK3s(1)
    \/ HandleStatus

SpecStatus == InitStatus /\ [][NextStatus]_vars

(***************************************************************************)
(* One K3sManager.Start call and the k3s process it spawns.                *)
(***************************************************************************)
InitK3s == Init

NextK3s == Start \/ K3sProcess

SpecK3s == InitK3s /\ [][NextK3s]_vars

(***************************************************************************)
(* One upload, its boot task, the log lines of the k3s process and one log  *)
(* subscriber.  Every step of the handler and of the boot task that can be *)
(* taken is eventually taken; the subscriber and its peer do as they       *)
(* please.                                                                 *)
(***************************************************************************)
InitLive == Init

NextLive ==
    \/ HandleUpload(1) \/ startK3s(1)
    \/ \E p \in BufferWriters : BufferWrite(p)
    \/ \E c \in Conns : HandleWebSocket(c) \/ PeerClose(c) \/ PeerStall(c)

SpecLive == InitLive /\ [][NextLive]_vars /\ SF_vars(HandleUpload(1) \/ startK3s(1))

\* the run of upload r is over: its handler has replied and its boot task,
\* if one was spawned, has returned
RunOver(r) == pc[r] = "done" /\ tpc[r] \in {"none", "done"}

(***************************************************************************)
(* Uploads one after the other: an upload arrives when the run of the one  *)
(* before it is over.                                                      *)
(***************************************************************************)
InitRuns == Init

NextRuns ==
    \E r \in Uploads :
        (\A q \in 1..(r - 1) : RunOver(q)) /\ (HandleUpload(r) \/ startK3s(r))

SpecRuns == InitRuns /\ [][NextRuns]_vars

(***************************************************************************)
(* Uploads one after the other, each by a client that streams the logs     *)
(* once its upload is accepted.                                            *)
(***************************************************************************)
InitClient == Init

NextClient ==
    \/ NextRuns
    \/ \E r \in Uploads : StreamLogs(r)

SpecClient == InitClient /\ [][NextClient]_vars

(***************************************************************************)
(* One upload, one status request and one log connection, with the boot    *)
(* task and the callbacks they start: every goroutine that can do its next *)
(* operation eventually does it; the peer of the connection does as it     *)
(* pleases.                                                                *)
(***************************************************************************)
InitLocks == Init

NextLocks ==
    \/ \E h \in Handlers : Request(h)
    \/ \E g \in Goroutines : Step(g) \/ RunGo(g)
    \/ ConnStall

SpecLocks ==
    /\ InitLocks
    /\ [][NextLocks]_vars
    /\ \A g \in Goroutines : SF_vars(Step(g))
    /\ \A g \in Callbacks : WF_vars(RunGo(g))

(***************************************************************************)
(* A LogBuffer with subscribed channels: the producers add events while    *)
(* channels are subscribed, drained and unsubscribed.                      *)
(***************************************************************************)
InitSubs == Init

NextSubs ==
    \/ \E p \in Producers : broadcastLog(p) \/ BufferWrite(p)
    \/ \E ch \in Chans : Subscribe(ch) \/ Unsubscribe(ch) \/ Receive(ch)

SpecSubs == InitSubs /\ [][NextSubs]_vars

(***************************************************************************)
(* A fresh StateMachine called concurrently.                               *)
(***************************************************************************)
InitCalls == Init

NextCalls ==
    \/ OnTransition
    \/ \E to \in States : TransitionCall(to)
    \/ \E n \in Notifications : RunCallback(n)
    \/ IncrementImagesCall
    \/ IncrementChartsCall

SpecCalls == InitCalls /\ [][NextCalls]_vars

\* a started goroutine is eventually scheduled
SpecCallsLive == SpecCalls /\ WF_vars(\E n \in Notifications : RunCallback(n))

(***************************************************************************)
(* Properties                                                              *)
(***************************************************************************)
\* an upload that passed the gate and has not finished Extract or its abort,
\* or whose boot task is running
InFlight(r) ==
    \/ pc[r] \in {"transition", "roots", "entries", "abort"}
    \/ tpc[r] \notin {"none", "done"}

\* C1: in every reachable state at most one ingestion/boot/install/test
\* pipeline is in flight: never two uploads past the Idle check, never two
\* startK3s tasks running.
C1_SingleFlight == Cardinality({r \in Uploads : InFlight(r)}) <= 1

\* the step in which upload r, a POST, is answered at the gate while the
\* lifecycle state is not Idle
GateSeesBusy(r) ==
    /\ pc[r] = "init"
    /\ pc'[r] # "init"
    /\ req'[r].method = "POST"
    /\ current # StateIdle

\* C2: a POST whose Idle check observes a state other than Idle is answered
\* 409, makes no transition, extracts nothing, starts no task, and leaves
\* lifecycle state, counters and chart records unchanged.
C2_BusyUploadRejected ==
    [][\A r \in Uploads :
         GateSeesBusy(r) =>
           /\ resp'[r] = [code |-> StatusConflict, state |-> ""]
           /\ pc'[r] = "done"
           /\ UNCHANGED <<current, imagesCount, chartsCount, chartStatus, disk, pos,
                          warnings, onChartCalls, tpc, k3sReady, hm, completion>>]_vars

C2_Witness ==
    \E r \in Uploads :
        /\ resp[r].code = StatusConflict
        /\ req[r].method = "POST"
        /\ current \in {StateTransferring, StateStarting, StateReady}

LegalTransitions ==
    {<<StateIdle, StateTransferring>>, <<StateTransferring, StateIdle>>,
     <<StateTransferring, StateStarting>>, <<StateStarting, StateIdle>>,
     <<StateStarting, StateReady>>}

\* C3: every change of the lifecycle state is one of the five legal
\* transitions.
C3_OnlyLegalTransitions ==
    [][current' # current => <<current, current'>> \in LegalTransitions]_vars

\* C4: once Ready, the lifecycle state stays Ready.
C4_ReadyIsTerminal == [][current = StateReady => current' = StateReady]_vars

\* the flat image entries of a body, and its charts (one Chart.yaml each)
ImageEntries(b) == {n \in 1..Len(b) : isImageTar(b[n].name)}
ChartYamlEntries(b) ==
    {n \in 1..Len(b) : /\ Len(b[n].name) = 3
                       /\ b[n].name[1] = "charts"
                       /\ b[n].name[3] = "Chart.yaml"}

\* C5: when HandleUpload answers 202 for a stream of k images and m charts,
\* imagesCount = k, chartsCount = m, the lifecycle state is Starting and the
\* body reports Starting.
C5_AcceptedMeansStarting ==
    [][\A r \in Uploads :
         (pc[r] = "reply" /\ resp'[r].code = StatusAccepted) =>
           /\ imagesCount' = Cardinality(ImageEntries(req[r].body))
           /\ chartsCount' = Cardinality(ChartYamlEntries(req[r].body))
           /\ current' = StateStarting
           /\ resp'[r].state = StateStarting]_vars

\* C6: when Extract returns an error, HandleUpload answers 500, the state
\* goes Transferring -> Idle, and no boot task is started for that upload.
C6_ExtractionFailureAborts ==
    [][\A r \in Uploads :
         (pc[r] = "abort" /\ pc'[r] # "abort") =>
           /\ current = StateTransferring
           /\ current' = StateIdle
           /\ resp'[r].code = StatusInternalServerError
           /\ tpc'[r] = "none"]_vars

\* the step in which Extract of upload r processes one entry, and the entry
EntryStep(r) == pc[r] = "entries" /\ pos'[r] = pos[r] + 1
Entry(r) == req[r].body[pos[r] + 1]
EntrySkipped(r) == warnings'[r] = warnings[r] + 1

ImageTarget(e) == imagesDir \o <<Base(e.name)>>
ChartTarget(e) ==
    Clean(chartsDir \o (IF e.name[1] = "charts" /\ Len(e.name) > 1
                        THEN Tail(e.name) ELSE e.name))
NamedLikeChart(e) ==
    \/ Len(e.name) > 1 /\ e.name[1] = "charts"
    \/ \E n \in 1..Len(e.name) : e.name[n] \in {"Chart.yaml", "Chart.yaml.bak"}

C8_DiscoveryPerChartYaml ==
    [][\A r \in Uploads :
         EntryStep(r) =>
           LET e == Entry(r) IN
           IF /\ Base(e.name) = "Chart.yaml"
              /\ e.typeflag = TypeReg
              /\ warnings'[r] = warnings[r]
           THEN /\ onChartCalls'[r] = Append(onChartCalls[r], Dir(ChartTarget(e)))
                /\ ChartTarget(e) \in disk'.files
                /\ chartsCount' = chartsCount + 1
           ELSE UNCHANGED <<onChartCalls, chartsCount>>]_vars

\* C8 as claimed: the callback fires exactly once per chart directory.
C8_AsClaimed ==
    \A r \in Uploads :
        \A m, n \in 1..Len(onChartCalls[r]) :
            m # n => onChartCalls[r][m] # onChartCalls[r][n]

C8_Witness ==
    /\ pos[1] = 2
    /\ req[1].body = <<File(<<"charts", "demo", "values.yaml">>),
                       File(<<"charts", "demo", "Chart.yaml">>)>>
    /\ onChartCalls[1] = <<chartsDir \o <<"demo">>>>
    /\ chartsCount = 1

Phase(status, c) == IF c \in DOMAIN status THEN status[c].phase ELSE "Pending"

ForwardPhases ==
    {<<"Pending", PhaseInstalling>>, <<PhaseInstalling, PhaseDeployed>>,
     <<PhaseInstalling, PhaseFailed>>, <<PhaseDeployed, PhaseTesting>>,
     <<PhaseTesting, PhaseSucceeded>>, <<PhaseTesting, PhaseFailed>>}

\* C9: within a Server instance a chart's phase only moves forward along
\* Installing -> {Deployed | Failed} and Deployed -> Testing ->
\* {Succeeded | Failed}; Failed and Succeeded are final.
C9_PhasesOnlyForward ==
    [][\A c \in DOMAIN chartStatus' :
         Phase(chartStatus, c) # Phase(chartStatus', c) =>
           <<Phase(chartStatus, c), Phase(chartStatus', c)>> \in ForwardPhases]_vars

\* C10: a chart's failure never stops the loop of InstallCharts: when it
\* returns, every discovered chart has the final phase Succeeded or Failed.
C10_EveryChartProcessed ==
    \A t \in Uploads :
        (tpc[t] = "verdict" /\ hm[t].charts # <<>>) =>
          /\ hm[t].charts = discoverCharts(disk)
          /\ \A k \in 1..Len(hm[t].charts) :
               Phase(chartStatus, Base(hm[t].charts[k])) \in {PhaseSucceeded, PhaseFailed}

\* a chart after a failed one reached Succeeded
C10_Witness ==
    /\ tpc[1] = "verdict"
    /\ Len(hm[1].charts) = 2
    /\ Phase(chartStatus, Base(hm[1].charts[1])) = PhaseFailed
    /\ Phase(chartStatus, Base(hm[1].charts[2])) = PhaseSucceeded

\* the charts of a list whose recorded phase is Failed, in list order
RECURSIVE FailedOf(_)
FailedOf(charts) ==
    IF charts = <<>> THEN <<>>
    ELSE IF Phase(chartStatus, Base(Head(charts))) = PhaseFailed
         THEN <<Head(charts)>> \o FailedOf(Tail(charts))
         ELSE FailedOf(Tail(charts))

\* InstallCharts got past ensureHelmBinary and discoverCharts
DiscoverySucceeded(t) == ~(hm[t].charts = <<>> /\ hm[t].err)

\* C11: once the helm binary is available and discovery succeeded,
\* InstallCharts returns an error iff a chart ended Failed, and the failure
\* list of the error is exactly the charts whose final phase is Failed, each
\* once, and none whose final phase is Succeeded.
C11_ErrorNamesFailedCharts ==
    \A t \in Uploads :
        (tpc[t] = "verdict" /\ DiscoverySucceeded(t)) =>
          /\ hm[t].err <=> (\E k \in 1..Len(hm[t].charts) :
                               Phase(chartStatus, Base(hm[t].charts[k])) = PhaseFailed)
          /\ hm[t].testFailures = FailedOf(hm[t].charts)
          /\ \A k \in 1..Len(hm[t].testFailures) :
               Phase(chartStatus, Base(hm[t].testFailures[k])) # PhaseSucceeded

\* InstallCharts returned an error naming one of two charts, the other
\* Succeeded
C11_Witness ==
    /\ tpc[1] = "verdict"
    /\ hm[1].err
    /\ Len(hm[1].charts) = 2
    /\ hm[1].testFailures = <<hm[1].charts[2]>>
    /\ Phase(chartStatus, Base(hm[1].charts[1])) = PhaseSucceeded

\* the step in which run t publishes its completion marker
Publishes(t) == completion'[t] # completion[t]

\* C12: a run publishes COMPLETE:SUCCESS only if the lifecycle state is
\* Ready and every chart record's phase is Succeeded; if any chart's phase
\* is Failed the marker is COMPLETE:FAILED and the lifecycle state is Ready.
C12_MarkerMatchesOutcome ==
    [][\A t \in Uploads :
         Publishes(t) =>
           /\ completion'[t] = CompleteSuccess =>
                 /\ current = StateReady
                 /\ \A c \in DOMAIN chartStatus :
                      chartStatus[c].phase = PhaseSucceeded
           /\ (\E c \in DOMAIN chartStatus : chartStatus[c].phase = PhaseFailed) =>
                 /\ completion'[t] = CompleteTestsFailed
                 /\ current = StateReady]_vars

\* C13: when a readiness wait of K3sManager.Start times out, Start returns
\* an error and the ready flag stays false; the run then takes the lifecycle
\* Starting -> Idle, never enters Ready, and attempts no image import and no
\* chart install.
C13_BootTimeoutReverts ==
    [][\A t \in Uploads :
         /\ (tpc[t] = "boot" /\ tpc'[t] = "bootFailed") => ~k3sReady'
         /\ tpc[t] = "bootFailed" => tpc'[t] \in {"bootFailed", "revert"}
         /\ tpc[t] = "revert" => tpc'[t] \in {"revert", "done"}
         /\ (tpc[t] = "revert" /\ tpc'[t] = "done") =>
               /\ current = StateStarting
               /\ current' = StateIdle
               /\ ~k3sReady'
               /\ hm'[t] = NoCharts]_vars

FailedMarkers == {CompleteTestsFailed, CompleteBootFailed}

\* C14: every failure of an upload's pipeline is surfaced as a log event
\* carrying the COMPLETE:FAILED marker (extraction failure, boot failure,
\* chart install or test failure) and, for a chart, as the Failed phase of
\* its record in the status snapshot.
C14_FailureSurfacedTwice ==
    [][\A r \in Uploads :
         /\ (pc[r] = "abort" /\ pc'[r] = "done") => completion'[r] \in FailedMarkers
         /\ (tpc[r] = "revert" /\ tpc'[r] = "done") => completion'[r] \in FailedMarkers
         /\ (tpc[r] = "verdict" /\ tpc'[r] = "done" /\ hm[r].err) =>
               /\ completion'[r] \in FailedMarkers
               /\ \A k \in 1..Len(hm[r].testFailures) :
                    Phase(chartStatus', Base(hm[r].testFailures[k])) = PhaseFailed]_vars

\* the events the buffer holds after K were added: the most recent
\* min(K, capacity), oldest first
Window(K) ==
    LET n == IF K < LogCapacity THEN K ELSE LogCapacity
    IN [i \in 1..n |-> K - n + i]

Ids(d) == [i \in 1..Len(d) |-> d[i].id]

Quiet == \A p \in Producers : lpc[p] = "idle"

\* C15: a connection registered after K events receives the most recent
\* min(K, capacity) of events 1..K and then event K+1 onward: no event is
\* delivered twice and, once the producers have returned, no event added
\* after the registration is missing.
C15_ReplayThenLive ==
    \A c \in Conns :
        /\ \A i, j \in 1..Len(delivered[c]) :
             i # j => delivered[c][i].id # delivered[c][j].id
        /\ (wpc[c] = "live" /\ connOpen[c] /\ Quiet) =>
             Ids(delivered[c]) =
               Window(joinedAt[c]) \o [i \in 1..(added - joinedAt[c]) |-> joinedAt[c] + i]

\* C16: the events delivered live to a connection arrive in the order in
\* which they were added to the buffer.
C16_LiveInBufferOrder ==
    \A c \in Conns :
        \A i, j \in 1..Len(delivered[c]) :
            (i < j /\ delivered[c][i].live /\ delivered[c][j].live) =>
              delivered[c][i].id < delivered[c][j].id

\* C17: after any sequence of Add calls the buffer holds at most maxSize
\* events, exactly the most recent min(K, maxSize) of the K added, in
\* insertion order, and GetAll returns that sequence.
C17_BufferHoldsMostRecent ==
    /\ Len(messages) <= LogCapacity
    /\ messages = Window(added)
    /\ GetAll = Window(added)

\* an event was evicted: more were added than the buffer holds
C17_Witness ==
    /\ added > LogCapacity
    /\ messages = Window(added)
    /\ Head(messages) = added - LogCapacity + 1

Last(h) == h[Len(h)]

\* C18: Transition(to) succeeds from every current state and for every
\* target state, READY -> IDLE included: it returns no error and leaves
\* Current() equal to to; under concurrent calls the state is the target of
\* the call that took the lock last, and always one of the four states.
C18_TransitionAlwaysSucceeds ==
    /\ current \in States
    /\ current = Last(history).to
    /\ \A i \in 1..Len(history) : history[i].err = "nil"
    /\ CallsMade < MaxCalls => \A to \in States : ENABLED TransitionCall(to)

\* the last of several calls took READY to IDLE
C18_Witness ==
    /\ Len(history) >= 3
    /\ history[Len(history) - 1].to = StateReady
    /\ Last(history).to = StateIdle
    /\ current = StateIdle

\* the calls made while a callback was set that went from -> to, and the
\* invocations of the callback with that pair
Expected(n) ==
    Cardinality({i \in 2..Len(history) :
                   history[i].cb /\ <<history[i - 1].to, history[i].to>> = n})
Invoked(n) == Cardinality({k \in 1..Len(notified) : notified[k] = n})

NoPending == \A n \in Notifications : pending[n] = 0

\* C19: each Transition call made while a callback is registered invokes
\* the callback exactly once, eventually, with (from, to), from being the
\* state held just before the call's assignment; a new StateMachine starts
\* in IDLE, so the notification of the first call has from = IDLE.
C19_EachTransitionNotifiedOnce ==
    /\ [](\A n \in Notifications : pending[n] + Invoked(n) = Expected(n))
    /\ [](history[1].to = StateIdle)
    /\ (~NoPending ~> NoPending)

\* two notified calls, the first from IDLE, both callbacks run
C19_Witness ==
    /\ Len(history) = 3
    /\ history[2].cb
    /\ NoPending
    /\ Len(notified) = 2
    /\ \E k \in 1..2 : notified[k] = <<StateIdle, history[2].to>>

\* C20: after n IncrementImages and m IncrementCharts calls, in any
\* interleaving, GetCounts returns (n, m).
C20_NoLostIncrement == GetCounts = <<increments.images, increments.charts>>

C20_Witness ==
    /\ increments = [images |-> 2, charts |-> 2]
    /\ GetCounts = <<2, 2>>

\* C21: imagesCount and chartsCount never decrease during the life of a
\* Server: no rejected upload, failed extraction, boot failure or later
\* upload lowers either.
C21_CountersNeverDecrease ==
    [][imagesCount' >= imagesCount /\ chartsCount' >= chartsCount]_vars

\* an upload failed after an image was counted, and the count is still there
\* with the lifecycle back at IDLE
C21_Witness ==
    \E r \in Uploads :
        /\ resp[r].code = StatusInternalServerError
        /\ imagesCount >= 1
        /\ current = StateIdle

\* the images of a Bundle input that the Bundler wrote to the stream
BundledImages(in) == {k \in 1..Len(in.images) : ImageAdded(in.images[k])}

\* C22: bundling then extracting is a round trip.  When Extract has
\* returned without skipping an entry, every image Bundle wrote is a file
\* <imagesRoot>/<name>, every chart path it wrote is at
\* <chartsRoot>/<chartName>/<relPath>, imagesCount is the number of images
\* bundled and chartsCount the number of charts bundled.
C22_RoundTrip ==
    (pc[1] = "reply" /\ warnings[1] = 0) =>
        LET in == req[1].bundled IN
        /\ \A k \in BundledImages(in) :
             imagesDir \o <<Base(in.images[k].path)>> \in disk.files
        /\ \A c \in 1..Len(in.charts) : \A w \in 1..Len(in.charts[c].walk) :
             LET item == in.charts[c].walk[w]
                 target == chartsDir \o <<Base(in.charts[c].path)>> \o item.rel
             IN IF item.isDir THEN target \in disk.dirs ELSE target \in disk.files
        /\ imagesCount = Cardinality(BundledImages(in))
        /\ chartsCount = Len(in.charts)

\* the notifications of the Transition calls 2..k of the history, in call order
RECURSIVE IssuedUpTo(_)
IssuedUpTo(k) ==
    IF k < 2 THEN <<>>
    ELSE IssuedUpTo(k - 1) \o
         (IF history[k].cb THEN <<<<history[k - 1].to, history[k].to>>>> ELSE <<>>)

\* C23: the callback observes the notifications in the order the Transition
\* calls were issued: what it has observed so far is a prefix of the
\* notifications in call order.
C23_NotifiedInCallOrder ==
    /\ Len(notified) <= Len(IssuedUpTo(Len(history)))
    /\ \A k \in 1..Len(notified) : notified[k] = IssuedUpTo(Len(history))[k]

\* the subscribed channels that are full
FullChans == {ch \in SubscribedChans : Len(chans[ch]) >= ChanCapacity}

\* C24: LogBuffer.Add never blocks on a subscriber.  A producer can always
\* complete Add, whatever the channels hold; the Add appends the event to
\* the buffer and to every subscribed channel with room, and a full channel
\* is left as it was.
C24_AddNeverBlocks ==
    /\ [](added < MaxLogs => ENABLED BufferWrite("k3s"))
    /\ [][added' = added + 1 =>
            /\ Last(messages') = added'
            /\ \A ch \in SubscribedChans :
                 chans'[ch] = IF ch \in FullChans THEN chans[ch]
                              ELSE Append(chans[ch], added')]_vars

\* both channels subscribed; s1 was full when event 2 was added and still
\* holds event 1, s2 had room and holds event 2
C24_Witness ==
    /\ SubscribedChans = Chans
    /\ chans["s1"] = <<1>>
    /\ chans["s2"] = <<2>>
    /\ messages = <<1, 2>>

\* C25: wsMutex is not held while a write to a connection blocks, so a
\* connection whose peer has stopped reading cannot delay a producer: a
\* producer inside broadcastLog can always take its next step.
C25_NoLockAcrossBlockingWrite ==
    /\ \A p \in Broadcasters :
         wsMutex = p => \A c \in wsClients : ~WriteBlocks(c)
    /\ \A p \in Broadcasters :
         lpc[p] # "idle" => \E q \in Broadcasters : ENABLED broadcastLog(q)

\* C26: HandleStatus is read-only.  In any lifecycle state and whether or
\* not the cluster queries succeed, a HandleStatus call changes nothing of
\* the Server but the response it writes; and the chart map in a response
\* is a copy: no later step of the pipeline changes what a response holds.
C26_StatusReadOnly ==
    [][/\ statusCalls' # statusCalls => UNCHANGED <<ServerVars, LogVars, CallVars>>
       /\ (statusCalls' = statusCalls /\ statusCalls > 0) =>
              HeldEntries(statusResp.Charts)' = HeldEntries(statusResp.Charts)]_vars

\* a status request whose cluster query failed, served while a chart was
\* being installed; the chart has since moved on
C26_Witness ==
    /\ statusCalls > 0
    /\ statusResp.state = StateReady
    /\ statusResp.ClusterResources = "nil"
    /\ \E c \in DOMAIN statusResp.Charts.entries :
         /\ statusResp.Charts.entries[c].phase = PhaseInstalling
         /\ chartStatus[c].phase # PhaseInstalling

\* C27: when writing one entry fails in Extract, only that entry is
\* skipped.  The step that logs the warning fires no callback, increments
\* no counter and leaves Extract in its loop at the next entry; and Extract
\* returns success only with every entry of the stream consumed.
C27_FailedEntrySkipped ==
    /\ [][warnings'[1] > warnings[1] =>
            /\ imagesCount' = imagesCount
            /\ chartsCount' = chartsCount
            /\ onChartCalls' = onChartCalls
            /\ pos'[1] = pos[1] + 1
            /\ pc'[1] = "entries"]_vars
    /\ [](pc[1] = "reply" => pos[1] = Len(req[1].body))

\* the Chart.yaml of demo failed to write, the image after it was extracted,
\* and Extract returned success
C27_Witness ==
    /\ pc[1] = "reply"
    /\ req[1].body = <<File(<<"charts", "demo", "Chart.yaml">>), File(<<"nginx.tar">>)>>
    /\ warnings[1] = 1
    /\ chartsCount = 0
    /\ onChartCalls[1] = <<>>
    /\ imagesCount = 1

\* C28 as stated: once both roots exist Extract returns success, whatever
\* the stream holds.
C28_OnlyRootsFail == [][pc'[1] = "abort" => pc[1] \in {"roots", "abort"}]_vars

\* C28: Extract returns an error only when a root directory cannot be
\* created or when the tar reader fails on a header.  An error out of the
\* roots step leaves a root missing; an error out of the loop comes from a
\* step that wrote nothing and skipped nothing; writing an entry, failed or
\* not, never ends the loop.
C28_ErrorFromRootsOrReader ==
    /\ [][(pc[1] = "roots" /\ pc'[1] = "abort") =>
             ~({imagesDir, chartsDir} \subseteq disk'.dirs)]_vars
    /\ [][(pc[1] = "entries" /\ pc'[1] = "abort") =>
             UNCHANGED <<disk, pos, warnings, imagesCount, chartsCount>>]_vars
    /\ [][pos'[1] # pos[1] => pc'[1] = "entries"]_vars

\* both roots exist, one entry was skipped, then the reader failed
C28_Witness ==
    /\ pc[1] = "abort"
    /\ {imagesDir, chartsDir} \subseteq disk.dirs
    /\ warnings[1] = 1
    /\ pos[1] = 1
    /\ Len(req[1].body) = 2

\* the endpoints that have given an accepted answer
Answered == {u \in Urls : k3s.answers[u] \in {200, 401}}

\* the endpoints polled so far
Polled == {u \in Urls : k3s.answers[u] # 0} \cup
          (IF k3s.pc = "get" /\ k3s.url = 2 THEN {Kubelet} ELSE {})

\* C29 as stated: ready only after the kubeconfig was observed and both
\* endpoints answered 200 or 401; no endpoint polled before the file exists.
C29_BothEndpointsAnswered ==
    /\ k3sReady => (k3s.observed /\ Answered = Urls)
    /\ (k3s.pc = "get" \/ Polled # {}) => (k3s.observed /\ k3s.kubeconfig)

\* C29: Start declares the cluster ready only after the kubeconfig was
\* observed and then one of the two endpoints answered 200 or 401; no
\* endpoint is polled before the file exists.
C29_ReadyInTwoStages ==
    /\ k3sReady => (k3s.observed /\ Answered # {})
    /\ (k3s.pc = "get" \/ Polled # {}) => (k3s.observed /\ k3s.kubeconfig)

\* ready on the API server's 401 alone: the kubelet answered 503
C29_Witness ==
    /\ k3sReady
    /\ k3s.answers[Kubelet] = 503
    /\ k3s.answers[ApiServer] = 401

\* the charts being installed or tested
InProgress ==
    {c \in DOMAIN chartStatus : chartStatus[c].phase \in {PhaseInstalling, PhaseTesting}}

Finished(c) == chartStatus[c].phase \in {PhaseFailed, PhaseSucceeded}

\* C30: InstallCharts processes the charts strictly one after another.  A
\* chart enters Testing only from Deployed; at most one chart is Installing
\* or Testing at any time; and a chart enters Installing only when every
\* chart handled before it has reached Failed or Succeeded.
C30_OneChartAtATime ==
    /\ [](Cardinality(InProgress) <= 1)
    /\ [][\A c \in DOMAIN chartStatus' :
            (Phase(chartStatus', c) = PhaseTesting /\ Phase(chartStatus, c) # PhaseTesting)
                => Phase(chartStatus, c) = PhaseDeployed]_vars
    /\ [][\A c \in DOMAIN chartStatus' :
            (Phase(chartStatus', c) = PhaseInstalling
             /\ Phase(chartStatus, c) # PhaseInstalling)
                => \A d \in DOMAIN chartStatus \ {c} : Finished(d)]_vars

\* three charts: the first failed, the second succeeded, the third is tested
C30_Witness ==
    /\ Cardinality(DOMAIN chartStatus) = 3
    /\ \E c \in DOMAIN chartStatus : chartStatus[c].phase = PhaseTesting
    /\ \E c \in DOMAIN chartStatus : chartStatus[c].phase = PhaseFailed
    /\ \E c \in DOMAIN chartStatus : chartStatus[c].phase = PhaseSucceeded

\* the tasks importing images
Importing(t) == tpc[t] \in {"import", "importing"}

\* C31 as stated: no failure on one artifact stops the import of the others:
\* ImportImages ends only with its walk consumed.
C31_NoFailureStopsImport ==
    [][\A t \in Uploads :
         (tpc[t] = "importing" /\ tpc'[t] = "install") => Len(imp.walk[t]) = 1]_vars

\* C31: an image import failure is only a warning.  No step of ImportImages
\* changes the lifecycle state; an artifact that cannot be opened,
\* decompressed or imported is skipped and the walk goes on with the next;
\* and when ImportImages ends, however it ends, InstallCharts is next.
C31_ImportFailureIsWarning ==
    /\ [][imp' # imp => (current' = current /\ current = StateReady)]_vars
    /\ [][\A t \in Uploads :
            imp'.warned[t] # imp.warned[t] =>
                /\ imp'.walk[t] = Tail(imp.walk[t])
                /\ tpc'[t] = IF Len(imp.walk[t]) = 1 THEN "install" ELSE "importing"]_vars
    /\ [][\A t \in Uploads :
            (Importing(t) /\ ~Importing(t)') => tpc'[t] = "install"]_vars

\* the import of app.tgz failed with a warning, nginx.tar after it was
\* imported, and the charts are being installed in state READY
C31_Witness ==
    /\ {imagesDir \o <<"app.tgz">>, imagesDir \o <<"nginx.tar">>} \subseteq disk.files
    /\ imp.store = {"nginx.tar"}
    /\ imp.warned[1] = 1
    /\ tpc[1] \in {"installChart", "helmInstall"}
    /\ current = StateReady

\* C32: every accepted upload eventually brings the lifecycle state to
\* READY or back to IDLE: the state never stays TRANSFERRING or STARTING.
C32_ReachesReadyOrIdle ==
    (current \in {StateTransferring, StateStarting}) ~> (current \in {StateIdle, StateReady})

\* run r ended in a stage-level failure: extraction failed (500) or the
\* boot failed
StageFailed(r) ==
    /\ RunOver(r)
    /\ resp[r].code = StatusInternalServerError \/ completion[r] = CompleteBootFailed

\* C33: after a stage-level failure the state is IDLE again, so the next
\* upload to the same Server is never refused with 409: it passes the gate
\* and is answered 202, or 500 when its own extraction fails.
C33_UploadAcceptedAfterFailure ==
    \A r \in Uploads \ {MaxUploads} :
        StageFailed(r) =>
            /\ pc[r + 1] = "init" => current = StateIdle
            /\ (req[r + 1].method = "POST" /\ pc[r + 1] = "done") =>
                   resp[r + 1].code \in {StatusAccepted, StatusInternalServerError}

\* the boot of the first upload failed, the second upload was answered 202
\* and its pipeline has brought the state to READY
C33_Witness ==
    /\ StageFailed(1)
    /\ completion[1] = CompleteBootFailed
    /\ resp[2].code = StatusAccepted
    /\ tpc[2] \in {"import", "importing", "install"}
    /\ current = StateReady

\* path p is the root or lies below it
Inside(root, p) == Len(p) >= Len(root) /\ SubSeq(p, 1, Len(root)) = root

\* C34: every file and every directory on the disk lies inside the images
\* root or the charts root (the directories above the roots, which creating
\* the roots creates, aside), whatever the entry names are.
C34_ExtractStaysInsideRoots ==
    /\ \A f \in disk.files : Inside(imagesDir, f) \/ Inside(chartsDir, f)
    /\ \A d \in disk.dirs :
           \/ Inside(imagesDir, d) \/ Inside(chartsDir, d)
           \/ d \in Prefixes(imagesDir) \cup Prefixes(chartsDir)

\* C35: whenever the state is READY, IsReady() is true; the ready flag
\* never returns to false; and no status response reports the state READY
\* with k3s_ready false.
C35_ReadyImpliesK3sReady ==
    /\ [](current = StateReady => IsReady)
    /\ [][k3sReady => k3sReady']_vars
    /\ []((statusCalls > 0 /\ statusResp.state = StateReady) => statusResp.K3sReady)

\* a status response that reports k3s_ready with the state STARTING: the
\* request read the state before Start returned and the flag after, and the
\* state is READY by now
C35_Witness ==
    /\ statusCalls > 0
    /\ statusResp.state = StateStarting
    /\ statusResp.K3sReady
    /\ current = StateReady
    /\ IsReady

\* C36: on a boot failure the COMPLETE:FAILED marker is published strictly
\* before the state reverts to IDLE: the step that publishes it leaves the
\* state alone, and the step that reverts the state finds it published.
C36_MarkerBeforeRevert ==
    /\ [][\A t \in Uploads :
            (completion'[t] = CompleteBootFailed /\ completion[t] # CompleteBootFailed) =>
                current' = current]_vars
    /\ [][\A t \in Uploads :
            (tpc[t] = "revert" /\ tpc'[t] # "revert") =>
                /\ completion[t] = CompleteBootFailed
                /\ current' = StateIdle]_vars

\* the marker of the first upload's boot failure is out, the state is still
\* STARTING, and another upload has been refused with 409
C36_Witness ==
    /\ completion[1] = CompleteBootFailed
    /\ tpc[1] = "revert"
    /\ current = StateStarting
    /\ req[2].method = "POST"
    /\ resp[2].code = StatusConflict

\* C37: at most one control-plane process is spawned and not exited at any
\* time, and once a failed boot has returned the state to IDLE no process
\* is left running.
C37_AtMostOneProcess ==
    /\ k3s.procs <= 1
    /\ \A t \in Uploads :
           (completion[t] = CompleteBootFailed /\ RunOver(t) /\ current = StateIdle) =>
               k3s.procs = 0

\* C38: the verdict StreamLogs returns to the client of an accepted upload
\* is the verdict of that upload's run.
C38_VerdictOfOwnRun ==
    \A r \in Uploads : client[r].pc = "done" => client[r].verdictOf = r

\* C39: writes to one WebSocket connection are mutually exclusive: at most
\* one goroutine is inside conn.WriteJSON on a connection, and broadcastLog
\* writes to a connection only while it is registered.
C39_OneWriterPerConnection ==
    /\ \A c \in Conns : Cardinality(writing[c]) <= 1
    /\ \A c \in Conns : writing[c] \cap Broadcasters # {} => c \in wsClients

\* lock l is held
Taken(l) ==
    IF l = "wsMutex" THEN wsMutex # NoHolder
    ELSE mu[l].w # NoHolder \/ mu[l].r # {}

\* no goroutine holds two of the locks at once
NoTwoLocks == \A g \in Goroutines : Cardinality(Held(g)) <= 1

\* no goroutine asks for a lock it holds
NoReentry ==
    \A g \in Goroutines :
        (prog[g] # <<>> /\ Head(prog[g]).op \in {"Lock", "RLock"}) =>
            Head(prog[g]).x \notin Held(g)

====
